---- MODULE Spec2Model ----
(***************************************************************************)
(* Model of monad_automation: the wallet store (core/wallet.py), the       *)
(* gateway's transaction pipeline (core/blockchain.py) and the task        *)
(* framework (tasks/base.py, tasks/dex/swap.py).                           *)
(*                                                                         *)
(* The program is single-threaded.  Every web3 call in the sources is a    *)
(* synchronous call and the receipt poll sleeps with time.sleep, so a      *)
(* coroutine never yields to the event loop between its first and its last *)
(* statement: one handler is in flight at a time.                          *)
(*                                                                         *)
(* Wallet names are non-empty strings.  The web3 middleware onion and the  *)
(* signing library are outside the model: set_account is its assignment.   *)
(***************************************************************************)
EXTENDS Integers, Sequences, FiniteSets, TLC

VARIABLES
    wallets,             \* WalletManager.wallets: name -> Wallet
    active_wallet_name,  \* WalletManager.active_wallet_name
    account,             \* MonadClient.account (the signing account)
    wallet_address,      \* MonadClient.wallet_address (current sending address)
    wallet_directory,    \* WalletManager.wallet_directory is configured
    files,               \* the *.wallet records of the wallet directory
    last,                \* the last completed WalletManager call and how it ended
    op,                  \* the scoped wallet operation in flight
    prep,                \* the last prepare_transaction call
    sent,                \* the last send_transaction call
    wait,                \* the wait_for_transaction_receipt call in flight
    task,                \* the composite task run in flight
    chain,               \* the node: transaction counts, and the nonces resolved
    loop                 \* the event loop: the coroutines gather runs

walletVars == <<wallets, active_wallet_name, account, wallet_address,
                wallet_directory, files, last, op>>
txVars     == <<prep, sent>>
vars       == <<wallets, active_wallet_name, account, wallet_address,
                wallet_directory, files, last, op, prep, sent, wait, task,
                chain, loop>>

None == "None"

(***************************************************************************)
(* Wallet                                                                  *)
(***************************************************************************)
Names     == {"A", "B", "C"}
Keys      == {"k1", "k2"}
Addresses == {"a1", "a2", "a3"}

\* A key is a hex string; Keys are spelled with the "0x" prefix, and
\* "k1_bare", "k2_bare" are the same keys spelled without it.
\* f"0x{private_key}" unless private_key.startswith("0x")
with_0x(private_key) ==
    IF private_key = "k1_bare" THEN "k1"
    ELSE IF private_key = "k2_bare" THEN "k2"
    ELSE private_key

\* Account.from_key(private_key).address; from_key takes either spelling
AddressOfKey(k) == IF with_0x(k) = "k1" THEN "a1" ELSE "a2"

\* Wallet.__init__: the account given, else the one derived from the key
Wallet(name, address, private_key, acct) ==
    [name        |-> name,
     address     |-> address,
     private_key |-> private_key,
     account     |-> IF acct # None THEN acct
                     ELSE IF private_key # None THEN with_0x(private_key)
                     ELSE None]

\* Wallet.from_private_key
from_private_key(name, private_key) ==
    LET key == with_0x(private_key) IN
    Wallet(name, AddressOfKey(key), key, key)

\* Account.from_mnemonic(mnemonic, account_path=path).key
Mnemonics == {"m1"}
KeyOfMnemonic(mnemonic) == "k2"

\* Wallet.from_mnemonic.  account.key.hex() is spelled with or without
\* "0x", as the installed hexbytes does it (hex_prefixed).
from_mnemonic(name, mnemonic, hex_prefixed) ==
    LET key == KeyOfMnemonic(mnemonic) IN
    Wallet(name, AddressOfKey(key),
           IF hex_prefixed THEN key
           ELSE IF key = "k1" THEN "k1_bare" ELSE "k2_bare",
           key)

has_private_key(w) == w.private_key # None

\* to_dict that leaves the key out of every record
to_dict_public(w) ==
    [name |-> w.name, address |-> w.address, private_key |-> None]

to_dict(w) ==
    [name |-> w.name, address |-> w.address, private_key |-> w.private_key]

\* the wallets a caller hands to add_wallet: built from a key, or watch-only
WalletInputs ==
    {from_private_key(n, k) : n \in Names, k \in Keys}
        \cup {Wallet(n, "a3", None, None) : n \in Names}

(***************************************************************************)
(* WalletManager and the gateway identity it pushes into MonadClient.      *)
(* A store state is a record; the operators below are the methods, with    *)
(* "raised" the exception that left the method (None: it returned).        *)
(***************************************************************************)
Store ==
    [wallets            |-> wallets,
     active_wallet_name |-> active_wallet_name,
     account            |-> account,
     wallet_address     |-> wallet_address,
     files              |-> files,
     raised             |-> None]

\* MonadClient.set_account
set_account(S, acct) == [S EXCEPT !.account = acct]

\* WalletManager.set_active_wallet
\* set_active_wallet with line 298 inside the "has a private key" branch:
\* a watch-only wallet leaves the gateway's sending address as it was
set_active_wallet_key_only(S, name) ==
    IF name \notin DOMAIN S.wallets
    THEN [S EXCEPT !.raised = "WalletError"]
    ELSE LET S1 == [S EXCEPT !.active_wallet_name = name]
             active_wallet == S1.wallets[name]
         IN  IF has_private_key(active_wallet)
             THEN [set_account(S1, active_wallet.account)
                      EXCEPT !.wallet_address = active_wallet.address]
             ELSE S1

set_active_wallet(S, name) ==
    IF name \notin DOMAIN S.wallets
    THEN [S EXCEPT !.raised = "WalletError"]
    ELSE LET S1 == [S EXCEPT !.active_wallet_name = name]
             active_wallet == S1.wallets[name]
             S2 == IF has_private_key(active_wallet)
                   THEN set_account(S1, active_wallet.account)
                   ELSE S1
         IN  [S2 EXCEPT !.wallet_address = active_wallet.address]

\* WalletManager.save_wallet; io_ok: open() and json.dump succeed
save_wallet(S, wallet_name, io_ok) ==
    IF ~wallet_directory THEN S
    ELSE IF wallet_name \notin DOMAIN S.wallets
    THEN [S EXCEPT !.raised = "WalletError"]
    ELSE IF ~io_ok THEN [S EXCEPT !.raised = "OSError"]
    ELSE [S EXCEPT !.files =
             [n \in DOMAIN S.files \cup {wallet_name} |->
                 IF n = wallet_name THEN to_dict(S.wallets[wallet_name])
                 ELSE S.files[n]]]

\* add_wallet without lines 219-220: the first wallet is not made active
add_wallet_not_active(S, w, io_ok) ==
    LET S1 == [S EXCEPT !.wallets =
                   [n \in DOMAIN S.wallets \cup {w.name} |->
                       IF n = w.name THEN w ELSE S.wallets[n]]]
    IN  save_wallet(S1, w.name, io_ok)

\* add_wallet without line 223: the record is not written
add_wallet_unsaved(S, w, io_ok) ==
    LET S1 == [S EXCEPT !.wallets =
                   [n \in DOMAIN S.wallets \cup {w.name} |->
                       IF n = w.name THEN w ELSE S.wallets[n]]]
    IN  IF Cardinality(DOMAIN S1.wallets) = 1
        THEN set_active_wallet(S1, w.name)
        ELSE S1

\* add_wallet that activates the new wallet whenever no wallet is active
add_wallet_when_inactive(S, w, io_ok) ==
    LET S1 == [S EXCEPT !.wallets =
                   [n \in DOMAIN S.wallets \cup {w.name} |->
                       IF n = w.name THEN w ELSE S.wallets[n]]]
        S2 == IF S1.active_wallet_name \notin DOMAIN S1.wallets
              THEN set_active_wallet(S1, w.name)
              ELSE S1
    IN  IF S2.raised # None THEN S2 ELSE save_wallet(S2, w.name, io_ok)

\* WalletManager.add_wallet
add_wallet(S, w, io_ok) ==
    LET S1 == [S EXCEPT !.wallets =
                   [n \in DOMAIN S.wallets \cup {w.name} |->
                       IF n = w.name THEN w ELSE S.wallets[n]]]
        S2 == IF Cardinality(DOMAIN S1.wallets) = 1
              THEN set_active_wallet(S1, w.name)
              ELSE S1
    IN  IF S2.raised # None THEN S2 ELSE save_wallet(S2, w.name, io_ok)

\* remove_wallet without lines 268-269: the active pointer is not cleared
remove_wallet_keeps_active(S, name, io_ok) ==
    IF name \notin DOMAIN S.wallets
    THEN [S EXCEPT !.raised = "WalletError"]
    ELSE LET S2 == [S EXCEPT !.wallets =
                       [n \in DOMAIN S.wallets \ {name} |-> S.wallets[n]]]
         IN  IF wallet_directory /\ name \in DOMAIN S2.files
             THEN IF io_ok
                  THEN [S2 EXCEPT !.files =
                           [n \in DOMAIN S2.files \ {name} |-> S2.files[n]]]
                  ELSE [S2 EXCEPT !.raised = "OSError"]
             ELSE S2

\* WalletManager.remove_wallet; io_ok: unlink() succeeds
remove_wallet(S, name, io_ok) ==
    IF name \notin DOMAIN S.wallets
    THEN [S EXCEPT !.raised = "WalletError"]
    ELSE LET S1 == IF S.active_wallet_name = name
                   THEN [S EXCEPT !.active_wallet_name = None]
                   ELSE S
             S2 == [S1 EXCEPT !.wallets =
                       [n \in DOMAIN S.wallets \ {name} |-> S.wallets[n]]]
         IN  IF wallet_directory /\ name \in DOMAIN S2.files
             THEN IF io_ok
                  THEN [S2 EXCEPT !.files =
                           [n \in DOMAIN S2.files \ {name} |-> S2.files[n]]]
                  ELSE [S2 EXCEPT !.raised = "OSError"]
             ELSE S2

\* get_wallet as self.wallets.get(name): an unknown name raises nothing
get_wallet_lenient(S, name) == S

\* WalletManager.get_wallet: raises for an unknown name, else returns the
\* wallet; the store is not written
get_wallet(S, name) ==
    IF name \notin DOMAIN S.wallets
    THEN [S EXCEPT !.raised = "WalletError"]
    ELSE S

\* WalletManager.list_wallets
list_wallets ==
    {[name            |-> n,
      address         |-> wallets[n].address,
      has_private_key |-> has_private_key(wallets[n]),
      is_active       |-> (n = active_wallet_name)] : n \in DOMAIN wallets}

\* WalletManager.active_wallet (a property): is there one, and its name
has_active_wallet(S) ==
    /\ S.active_wallet_name # None
    /\ S.active_wallet_name \in DOMAIN S.wallets

\* _get_wallet_for_operation without the has_private_key check
get_wallet_for_operation_any(S, wallet_name) ==
    LET found == IF wallet_name # None
                 THEN wallet_name \in DOMAIN S.wallets
                 ELSE has_active_wallet(S)
        name  == IF wallet_name # None THEN wallet_name ELSE S.active_wallet_name
    IN  IF ~found THEN [raised |-> "WalletError", wallet |-> None]
        ELSE [raised |-> None, wallet |-> name]

\* WalletManager._get_wallet_for_operation: the wallet's name, or the error
get_wallet_for_operation(S, wallet_name) ==
    LET found == IF wallet_name # None
                 THEN wallet_name \in DOMAIN S.wallets
                 ELSE has_active_wallet(S)
        name  == IF wallet_name # None THEN wallet_name ELSE S.active_wallet_name
    IN  IF ~found THEN [raised |-> "WalletError", wallet |-> None]
        ELSE IF ~has_private_key(S.wallets[name])
        THEN [raised |-> "WalletError", wallet |-> None]
        ELSE [raised |-> None, wallet |-> name]

EmptyMap == [n \in {} |-> None]
NoCall   == [call |-> "none", raised |-> None, io_failures |-> 0]
NoOp     == [kind |-> "none", pc |-> "idle", wallet_name |-> None,
             wallet |-> None, original |-> None, entry_active |-> None,
             entry_address |-> None, switched |-> FALSE, raised |-> None]

MaxIoFailures == 1    \* how many file operations fail in one run of the program

\* the record of a completed call; an OSError is a failed file operation
Called(call, raised) ==
    [call |-> call, raised |-> raised,
     io_failures |-> last.io_failures + (IF raised = "OSError" THEN 1 ELSE 0)]

Commit(S) ==
    /\ wallets' = S.wallets
    /\ active_wallet_name' = S.active_wallet_name
    /\ account' = S.account
    /\ wallet_address' = S.wallet_address
    /\ files' = S.files

\* the names the scoped-operation specification adds wallets under
ScopedNames == {"A", "B"}

AddWalletFrom(inputs) ==
    \E w \in inputs, io_ok \in BOOLEAN :
        LET S == add_wallet(Store, w, io_ok) IN
        /\ op.pc = "idle"
        /\ io_ok \/ last.io_failures < MaxIoFailures
        /\ Commit(S)
        /\ last' = Called("add_wallet", S.raised)
        /\ UNCHANGED <<wallet_directory, op>>

AddWallet == AddWalletFrom(WalletInputs)

AddScopedWallet == AddWalletFrom({w \in WalletInputs : w.name \in ScopedNames})

RemoveWallet ==
    \E name \in Names, io_ok \in BOOLEAN :
        LET S == remove_wallet(Store, name, io_ok) IN
        /\ op.pc = "idle"
        /\ io_ok \/ last.io_failures < MaxIoFailures
        /\ Commit(S)
        /\ last' = Called("remove_wallet", S.raised)
        /\ UNCHANGED <<wallet_directory, op>>

SetActiveWallet ==
    \E name \in Names :
        LET S == set_active_wallet(Store, name) IN
        /\ op.pc = "idle"
        /\ Commit(S)
        /\ last' = Called("set_active_wallet", S.raised)
        /\ UNCHANGED <<wallet_directory, op>>

(***************************************************************************)
(* MonadClient: the transaction pipeline.                                  *)
(* An optional integer (an argument that may be None, a key that may be    *)
(* missing from tx_params) is [some, val]; a node query's answer is        *)
(* [ok, val], ok = FALSE when the web3 call raised.                        *)
(***************************************************************************)
NoInt     == [some |-> FALSE, val |-> 0]
Some(v)   == [some |-> TRUE, val |-> v]
Ok(v)     == [ok |-> TRUE, val |-> v]
Failed    == [ok |-> FALSE, val |-> 0]

\* settings.GAS_LIMIT, settings.GAS_PRICE, settings.TX_CONFIRMATION_TIMEOUT
\* are read from the environment (pydantic BaseSettings; the defaults are
\* 3000000, 10000000000 wei and 300 s).  The values below are one such
\* configuration, small enough for the arithmetic on them to be enumerated.
GAS_LIMIT == 21
GAS_PRICE == 2
TX_CONFIRMATION_TIMEOUT == 4
\* MonadClient.chain_id (settings.MONAD_CHAIN_ID)
chain_id == 2442

\* tx_params.get(key, 0)
Get(field) == IF field.some THEN field.val ELSE 0

\* int(x * settings.AUTO_GAS_MULTIPLIER), the multiplier 1.1
AutoGas(x) == (x * 11) \div 10

\* get_gas_price returning the node's price as it is
get_gas_price_unscaled(q) == IF q.ok THEN q.val ELSE GAS_PRICE

\* MonadClient.get_gas_price; q: the node's answer to w3.eth.gas_price
get_gas_price(q) == IF q.ok THEN AutoGas(q.val) ELSE GAS_PRICE

\* MonadClient.estimate_gas; q: the node's answer to w3.eth.estimate_gas
estimate_gas(q) == IF q.ok THEN AutoGas(q.val) ELSE GAS_LIMIT

\* Web3.to_checksum_address on the spellings a caller may pass
is_address(a) == a \in Addresses \cup {"a3_lower"}
to_checksum_address(a) == IF a = "a3_lower" THEN "a3" ELSE a

NoTx == [from |-> None, to |-> None, value |-> NoInt, chainId |-> NoInt,
         data |-> None, gasPrice |-> NoInt, gas |-> NoInt, nonce |-> NoInt]

\* prepare_transaction with "if not gas_price" for "if gas_price is None"
\* (and the same for gas_limit and nonce): an override of 0 is resolved anew
prepare_transaction_falsy(addr, to, value, data, gas_limit, gas_price, nonce, node) ==
    IF addr = None THEN [raised |-> "ValueError", tx |-> NoTx]
    ELSE IF ~is_address(to) THEN [raised |-> "InvalidAddress", tx |-> NoTx]
    ELSE IF Get(nonce) = 0 /\ ~node.count.ok
    THEN [raised |-> "Web3Exception", tx |-> NoTx]
    ELSE [raised |-> None,
          tx |-> [from     |-> addr,
                  to       |-> to_checksum_address(to),
                  value    |-> Some(value),
                  chainId  |-> Some(chain_id),
                  data     |-> data,
                  gasPrice |-> IF Get(gas_price) = 0
                               THEN Some(get_gas_price(node.gas_price))
                               ELSE gas_price,
                  gas      |-> IF Get(gas_limit) = 0
                               THEN Some(estimate_gas(node.estimate))
                               ELSE gas_limit,
                  nonce    |-> IF Get(nonce) = 0
                               THEN Some(node.count.val)
                               ELSE nonce]]

\* prepare_transaction keeping a counter of its own per address: the nonce
\* after the first is the last one it handed out plus one
prepare_transaction_local_nonce(addr, to, value, data, gas_limit, gas_price, nonce, node) ==
    IF addr = None THEN [raised |-> "ValueError", tx |-> NoTx]
    ELSE IF ~is_address(to) THEN [raised |-> "InvalidAddress", tx |-> NoTx]
    ELSE IF ~nonce.some /\ ~node.count.ok
    THEN [raised |-> "Web3Exception", tx |-> NoTx]
    ELSE [raised |-> None,
          tx |-> [from     |-> addr,
                  to       |-> to_checksum_address(to),
                  value    |-> Some(value),
                  chainId  |-> Some(chain_id),
                  data     |-> data,
                  gasPrice |-> IF ~gas_price.some
                               THEN Some(get_gas_price(node.gas_price))
                               ELSE gas_price,
                  gas      |-> IF ~gas_limit.some
                               THEN Some(estimate_gas(node.estimate))
                               ELSE gas_limit,
                  nonce    |-> IF nonce.some THEN nonce
                               ELSE IF chain.resolved[addr].some
                               THEN Some(chain.resolved[addr].val + 1)
                               ELSE Some(node.count.val)]]

\* MonadClient.prepare_transaction.  node: the answers to the three queries
\* it may make.  The result: the exception that left it, or the request.
prepare_transaction(addr, to, value, data, gas_limit, gas_price, nonce, node) ==
    IF addr = None THEN [raised |-> "ValueError", tx |-> NoTx]
    ELSE IF ~is_address(to) THEN [raised |-> "InvalidAddress", tx |-> NoTx]
    ELSE IF ~nonce.some /\ ~node.count.ok
    THEN [raised |-> "Web3Exception", tx |-> NoTx]
    ELSE [raised |-> None,
          tx |-> [from     |-> addr,
                  to       |-> to_checksum_address(to),
                  value    |-> Some(value),
                  chainId  |-> Some(chain_id),
                  data     |-> data,
                  gasPrice |-> IF ~gas_price.some
                               THEN Some(get_gas_price(node.gas_price))
                               ELSE gas_price,
                  gas      |-> IF ~gas_limit.some
                               THEN Some(estimate_gas(node.estimate))
                               ELSE gas_limit,
                  nonce    |-> IF ~nonce.some
                               THEN Some(node.count.val)
                               ELSE nonce]]

required(tx_params) ==
    Get(tx_params.value) + (Get(tx_params.gas) * Get(tx_params.gasPrice))

\* send_transaction with "balance <= required" for "balance < required"
send_transaction_le(acct, tx_params, balance, submit) ==
    IF acct = None
    THEN [raised |-> "ValueError", tx_hash |-> None,
          queried |-> FALSE, submitted |-> FALSE]
    ELSE IF ~balance.ok
    THEN [raised |-> "TransactionError", tx_hash |-> None,
          queried |-> TRUE, submitted |-> FALSE]
    ELSE IF balance.val <= required(tx_params)
    THEN [raised |-> "InsufficientFundsError", tx_hash |-> None,
          queried |-> TRUE, submitted |-> FALSE]
    ELSE IF ~submit.ok
    THEN [raised |-> "TransactionError", tx_hash |-> None,
          queried |-> TRUE, submitted |-> TRUE]
    ELSE [raised |-> None, tx_hash |-> "0xhash",
          queried |-> TRUE, submitted |-> TRUE]

\* send_transaction without the "except InsufficientFundsError: raise"
\* clause: the funds error is wrapped like every other one
send_transaction_rewrapped(acct, tx_params, balance, submit) ==
    IF acct = None
    THEN [raised |-> "ValueError", tx_hash |-> None,
          queried |-> FALSE, submitted |-> FALSE]
    ELSE IF ~balance.ok
    THEN [raised |-> "TransactionError", tx_hash |-> None,
          queried |-> TRUE, submitted |-> FALSE]
    ELSE IF balance.val < required(tx_params)
    THEN [raised |-> "TransactionError", tx_hash |-> None,
          queried |-> TRUE, submitted |-> FALSE]
    ELSE IF ~submit.ok
    THEN [raised |-> "TransactionError", tx_hash |-> None,
          queried |-> TRUE, submitted |-> TRUE]
    ELSE [raised |-> None, tx_hash |-> "0xhash",
          queried |-> TRUE, submitted |-> TRUE]

\* MonadClient.send_transaction.  balance: the node's answer to get_balance;
\* submit: its answer to w3.eth.send_transaction.  "queried" and "submitted"
\* record which node calls were made.
send_transaction(acct, tx_params, balance, submit) ==
    IF acct = None
    THEN [raised |-> "ValueError", tx_hash |-> None,
          queried |-> FALSE, submitted |-> FALSE]
    ELSE IF ~balance.ok
    THEN [raised |-> "TransactionError", tx_hash |-> None,
          queried |-> TRUE, submitted |-> FALSE]
    ELSE IF balance.val < required(tx_params)
    THEN [raised |-> "InsufficientFundsError", tx_hash |-> None,
          queried |-> TRUE, submitted |-> FALSE]
    ELSE IF ~submit.ok
    THEN [raised |-> "TransactionError", tx_hash |-> None,
          queried |-> TRUE, submitted |-> TRUE]
    ELSE [raised |-> None, tx_hash |-> "0xhash",
          queried |-> TRUE, submitted |-> TRUE]

(***************************************************************************)
(* Calls of the pipeline, with the arguments and node answers they saw.    *)
(***************************************************************************)
Values       == {0, 95}
GasLimits    == {NoInt, Some(0), Some(10)}
GasPrices    == {NoInt, Some(0), Some(1)}
Nonces       == {NoInt, Some(0)}
DataInputs   == {None, "0xdata"}
ToInputs     == {"a3_lower", "not_an_address"}
NodeAnswers  == {Failed, Ok(10)}
CountAnswers == {Failed, Ok(7)}
Balances     == {Failed, Ok(100), Ok(105)}
SubmitAnswers == {Failed, Ok(0)}

\* tx_params a caller builds by hand: keys may be missing
CallerTx ==
    {[NoTx EXCEPT !.from = "a1", !.to = "a3", !.value = v, !.gas = g, !.gasPrice = p] :
        v \in {NoInt, Some(95)}, g \in {NoInt, Some(10)}, p \in {NoInt, Some(1)}}

NoNode == [gas_price |-> Failed, estimate |-> Failed, count |-> Failed]
NoPrep == [called |-> FALSE, gas_limit |-> NoInt, gas_price |-> NoInt,
           nonce |-> NoInt, node |-> NoNode, raised |-> None, tx |-> NoTx]
NoSent == [called |-> FALSE, tx_params |-> NoTx, balance |-> Failed,
           raised |-> None, tx_hash |-> None, queried |-> FALSE,
           submitted |-> FALSE]

PrepareTransaction ==
    \E to \in ToInputs, value \in Values, data \in DataInputs,
       gas_limit \in GasLimits, gas_price \in GasPrices, nonce \in Nonces,
       qp \in NodeAnswers, qe \in NodeAnswers, qc \in CountAnswers :
        LET node == [gas_price |-> qp, estimate |-> qe, count |-> qc]
            r == prepare_transaction(wallet_address, to, value, data,
                                     gas_limit, gas_price, nonce, node)
        IN  /\ ~prep.called /\ ~sent.called
            /\ prep' = [called |-> TRUE, gas_limit |-> gas_limit,
                        gas_price |-> gas_price, nonce |-> nonce, node |-> node,
                        raised |-> r.raised, tx |-> r.tx]
            /\ sent' = NoSent

Send(tx_params) ==
    \E balance \in Balances, submit \in SubmitAnswers :
        LET r == send_transaction(account, tx_params, balance, submit) IN
        sent' = [called |-> TRUE, tx_params |-> tx_params, balance |-> balance,
                 raised |-> r.raised, tx_hash |-> r.tx_hash,
                 queried |-> r.queried, submitted |-> r.submitted]

\* send_transaction on the request prepare_transaction returned
SendPrepared ==
    /\ prep.called /\ prep.raised = None /\ ~sent.called
    /\ Send(prep.tx)
    /\ UNCHANGED prep

\* send_transaction on tx_params the caller built
SendTransaction ==
    /\ ~prep.called /\ ~sent.called
    /\ \E tx_params \in CallerTx : Send(tx_params)
    /\ UNCHANGED prep

\* the caller has the outcome; the next call starts afresh
TxReturn ==
    /\ prep.called \/ sent.called
    /\ prep' = NoPrep
    /\ sent' = NoSent

NextTx ==
    \/ PrepareTransaction /\ UNCHANGED <<walletVars, wait, task, chain, loop>>
    \/ SendPrepared /\ UNCHANGED <<walletVars, wait, task, chain, loop>>
    \/ SendTransaction /\ UNCHANGED <<walletVars, wait, task, chain, loop>>
    \/ TxReturn /\ UNCHANGED <<walletVars, wait, task, chain, loop>>

(***************************************************************************)
(* MonadClient.wait_for_transaction_receipt.                               *)
(* wait.now is time.time(); a receipt query and a sleep take time.         *)
(***************************************************************************)
MaxTimeout == 3    \* the largest timeout a caller passes
MaxPoll    == 2    \* the largest poll_interval a caller passes
MaxJitter  == 1    \* how much longer than asked a query or a sleep may take

Timeouts      == {NoInt} \cup {Some(t) : t \in 0..MaxTimeout}
PollIntervals == 0..MaxPoll
\* w3.eth.get_transaction_receipt: a receipt with status 1, one with status
\* 0, a falsy value, or an exception (TransactionNotFound, a transport error)
ReceiptAnswers == {"success", "reverted", "absent", "raised"}

NoWait == [pc |-> "idle", now |-> 0, deadline |-> 0, timeout |-> 0,
           given |-> NoInt, poll_interval |-> 0, receipt |-> None,
           slept |-> FALSE, query_failed |-> FALSE, result |-> None]

\* timeout = timeout or settings.TX_CONFIRMATION_TIMEOUT
effective_timeout(given) ==
    IF given.some /\ given.val # 0 THEN given.val ELSE TX_CONFIRMATION_TIMEOUT

\* "while True": the deadline is never looked at
loop_test_forever(now, deadline) == TRUE

\* while time.time() < deadline
loop_test(now, deadline) == now < deadline

\* poll without "except TransactionError: raise": the error raised for a
\* reverted receipt is swallowed by "except Exception: pass"
poll_swallows(answer) ==
    CASE answer = "success"  -> [pc |-> "done", result |-> "receipt"]
      [] OTHER               -> [pc |-> "sleep", result |-> None]

\* poll without the status test: any receipt is returned
poll_any_receipt(answer) ==
    CASE answer \in {"success", "reverted"} -> [pc |-> "done", result |-> "receipt"]
      [] OTHER                              -> [pc |-> "sleep", result |-> None]

\* the body of the try statement on one answer of the node: where the
\* iteration goes and what leaves the method
poll(answer) ==
    CASE answer = "success"  -> [pc |-> "done", result |-> "receipt"]
      [] answer = "reverted" -> [pc |-> "done", result |-> "TransactionError: failed"]
      [] OTHER               -> [pc |-> "sleep", result |-> None]

WaitCall ==
    \E given \in Timeouts, poll_interval \in PollIntervals :
        /\ wait.pc = "idle"
        /\ wait' = [NoWait EXCEPT !.pc = "loop",
                                  !.given = given,
                                  !.timeout = effective_timeout(given),
                                  !.deadline = wait.now + effective_timeout(given),
                                  !.poll_interval = poll_interval]

WaitLoop ==
    /\ wait.pc = "loop"
    /\ wait' = IF loop_test(wait.now, wait.deadline)
               THEN [wait EXCEPT !.pc = "query"]
               ELSE [wait EXCEPT !.pc = "done",
                                 !.result = "TransactionError: timed out"]

WaitQuery ==
    \E answer \in ReceiptAnswers, took \in 0..MaxJitter :
        /\ wait.pc = "query"
        /\ wait' = [wait EXCEPT !.pc = poll(answer).pc,
                                !.result = poll(answer).result,
                                !.receipt = answer,
                                !.query_failed = @ \/ answer = "raised",
                                !.now = @ + took]

WaitSleep ==
    \E over \in 0..MaxJitter :
        /\ wait.pc = "sleep"
        /\ wait' = [wait EXCEPT !.pc = "loop",
                                !.slept = TRUE,
                                !.now = @ + wait.poll_interval + over]

WaitReturn ==
    /\ wait.pc = "done"
    /\ wait' = NoWait

\* a step of the poll during which the clock moves
ClockAdvances ==
    /\ WaitQuery \/ WaitSleep
    /\ wait'.now > wait.now
    /\ UNCHANGED <<walletVars, txVars, task, chain, loop>>

NextWait ==
    \/ WaitCall /\ UNCHANGED <<walletVars, txVars, task, chain, loop>>
    \/ WaitLoop /\ UNCHANGED <<walletVars, txVars, task, chain, loop>>
    \/ WaitQuery /\ UNCHANGED <<walletVars, txVars, task, chain, loop>>
    \/ WaitSleep /\ UNCHANGED <<walletVars, txVars, task, chain, loop>>
    \/ WaitReturn /\ UNCHANGED <<walletVars, txVars, task, chain, loop>>

(***************************************************************************)
(* tasks/base.py: TaskResult, BaseTask.run, MultiTask (SequentialTask) and *)
(* ParallelTask.  A leaf subtask is its task_id and what its execute()     *)
(* does; execute() of a leaf is abstract and may suspend, so between the   *)
(* start and the end of a leaf's run siblings of a parallel composite may  *)
(* take steps.                                                             *)
(***************************************************************************)
MaxSubtasks == 2    \* the longest subtask list

TaskIds == {"t1", "t2"}
\* execute(): what it returns, or that it raises an error (a subclass of
\* Exception)
Executes == {"dict_tx_hash", "dict", "hash_str", "str", "none", "raises"}
Subtasks == [task_id : TaskIds, execute : Executes]

RECURSIVE SeqsUpTo(_, _)
SeqsUpTo(S, n) ==
    IF n = 0 THEN {<<>>}
    ELSE LET shorter == SeqsUpTo(S, n - 1)
         IN  shorter \cup {Append(q, x) : q \in {s \in shorter : Len(s) = n - 1}, x \in S}

NoResult == [task_id |-> None, status |-> "none", tx_hash |-> None,
             result_data |-> "{}", error |-> None, execution_time |-> "none"]

\* TaskResult.validate_status
valid_statuses == {"success", "failed", "pending"}

\* TaskResult.is_success
is_success(r) == r.status = "success"

\* run without its try/except: what execute raises leaves run
run_without_except(t) ==
    IF t.execute = "raises"
    THEN [raised |-> "Exception", r |-> NoResult]
    ELSE [raised |-> None,
          r |-> [task_id |-> t.task_id, status |-> "success",
                 tx_hash |-> CASE t.execute = "dict_tx_hash" -> "result[tx_hash]"
                               [] t.execute = "hash_str"     -> "result"
                               [] OTHER                      -> None,
                 result_data |-> CASE t.execute \in {"dict_tx_hash", "dict"} -> "result"
                                   [] t.execute = "str"                      -> "{value: result}"
                                   [] OTHER                                  -> "{}",
                 error |-> None,
                 execution_time |-> "measured"]]

\* BaseTask.run on a leaf: "raised" is the exception that left run (None:
\* run returned), "r" the TaskResult it returned
run(t) ==
    IF t.execute = "raises"
    THEN [raised |-> None,
          r |-> [task_id |-> t.task_id, status |-> "failed", tx_hash |-> None,
                 result_data |-> "{}", error |-> "str(e)",
                 execution_time |-> "measured"]]
    ELSE [raised |-> None,
          r |-> [task_id |-> t.task_id, status |-> "success",
                 tx_hash |-> CASE t.execute = "dict_tx_hash" -> "result[tx_hash]"
                               [] t.execute = "hash_str"     -> "result"
                               [] OTHER                      -> None,
                 result_data |-> CASE t.execute \in {"dict_tx_hash", "dict"} -> "result"
                                   [] t.execute = "str"                      -> "{value: result}"
                                   [] OTHER                                  -> "{}",
                 error |-> None,
                 execution_time |-> "measured"]]

\* ParallelTask.execute, lines 276-284: the TaskResult made for a subtask
\* whose run raised
synthetic_failed(t) ==
    [task_id |-> t.task_id, status |-> "failed", tx_hash |-> None,
     result_data |-> "{}", error |-> "str(result)", execution_time |-> "0.0"]

\* results.setdefault(subtask.task_id, result): the first result recorded
\* under an id is kept
Put_first(results, task_id, r) ==
    [k \in DOMAIN results \cup {task_id} |->
        IF k \in DOMAIN results THEN results[k] ELSE r]

\* results[subtask.task_id] = result
Put(results, task_id, r) ==
    [k \in DOMAIN results \cup {task_id} |-> IF k = task_id THEN r ELSE results[k]]

\* ParallelTask.execute, lines 272-286: subtask_results built from the list
\* gather returned, in list order.  outs[i] is what run(subtasks[i]) gave.
RECURSIVE collect(_, _, _)
collect(subtasks, outs, n) ==
    IF n = 0 THEN EmptyMap
    ELSE Put(collect(subtasks, outs, n - 1), subtasks[n].task_id,
             IF outs[n].raised # None THEN synthetic_failed(subtasks[n])
             ELSE outs[n].r)

NoOut  == [raised |-> None, r |-> NoResult]
NoTask == [pc |-> "idle", kind |-> "none", subtasks |-> <<>>, status |-> <<>>,
           outs |-> <<>>, executed |-> <<>>, i |-> 1, broke |-> FALSE,
           raised |-> None, results |-> EmptyMap, result |-> NoResult]

\* BaseTask.run of the composite starts: execute() is entered
CompositeRun ==
    \E kind \in {"sequential", "parallel"}, subtasks \in SeqsUpTo(Subtasks, MaxSubtasks) :
        /\ task.pc = "idle"
        /\ task' = [NoTask EXCEPT !.pc = "running", !.kind = kind,
                                  !.subtasks = subtasks,
                                  !.status = [j \in 1..Len(subtasks) |-> "created"],
                                  !.outs = [j \in 1..Len(subtasks) |-> NoOut]]

\* MultiTask.execute creating the next run without awaiting the one before
SeqStart_unawaited ==
    \E j \in 1..Len(task.subtasks) :
        /\ task.pc = "running" /\ task.kind = "sequential"
        /\ ~task.broke /\ task.raised = None
        /\ task.status[j] = "created"
        /\ \A k \in 1..(j - 1) : task.status[k] # "created"
        /\ task' = [task EXCEPT !.status[j] = "running",
                                !.executed = Append(@, j)]

\* MultiTask.execute: await subtask.run(client) is entered for the next subtask
SeqStart ==
    /\ task.pc = "running" /\ task.kind = "sequential"
    /\ ~task.broke /\ task.raised = None
    /\ task.i <= Len(task.subtasks)
    /\ task.status[task.i] = "created"
    /\ task' = [task EXCEPT !.status[task.i] = "running",
                            !.executed = Append(@, task.i)]

\* MultiTask.execute: subtask.run returned (or raised); the rest of the loop body
SeqFinish ==
    /\ task.pc = "running" /\ task.kind = "sequential"
    /\ task.i <= Len(task.subtasks)
    /\ task.status[task.i] = "running"
    /\ LET t == task.subtasks[task.i]
           out == run(t)
       IN  IF out.raised # None
           THEN task' = [task EXCEPT !.status[task.i] = "raised",
                                     !.outs[task.i] = out,
                                     !.raised = out.raised]
           ELSE task' = [task EXCEPT !.status[task.i] = out.r.status,
                                     !.outs[task.i] = out,
                                     !.results = Put(@, t.task_id, out.r),
                                     !.broke = ~is_success(out.r),
                                     !.i = @ + 1]

\* asyncio.gather: the tasks are created and first stepped in list order
ParStart ==
    \E j \in 1..Len(task.subtasks) :
        /\ task.pc = "running" /\ task.kind = "parallel"
        /\ task.status[j] = "created"
        /\ \A k \in 1..(j - 1) : task.status[k] # "created"
        /\ task' = [task EXCEPT !.status[j] = "running",
                                !.executed = Append(@, j)]

\* a subtask's run completes; gather keeps its result at the subtask's index
ParFinish ==
    \E j \in 1..Len(task.subtasks) :
        /\ task.pc = "running" /\ task.kind = "parallel"
        /\ task.status[j] = "running"
        /\ LET out == run(task.subtasks[j])
           IN  task' = [task EXCEPT !.status[j] = IF out.raised # None THEN "raised"
                                                  ELSE out.r.status,
                                    !.outs[j] = out]

all_finished ==
    \A j \in 1..Len(task.subtasks) : task.status[j] \notin {"created", "running"}

\* execute() of the composite returns (or raises) and BaseTask.run builds the
\* composite's TaskResult
CompositeFinish ==
    /\ task.pc = "running"
    /\ IF task.kind = "sequential"
       THEN task.raised # None \/ task.broke \/ task.i > Len(task.subtasks)
       ELSE all_finished
    /\ LET results == IF task.kind = "sequential" THEN task.results
                      ELSE collect(task.subtasks, task.outs, Len(task.subtasks))
       IN  task' = [task EXCEPT
               !.pc = "done",
               !.results = IF task.raised # None THEN EmptyMap ELSE results,
               !.result = IF task.raised # None
                          THEN [NoResult EXCEPT !.task_id = "composite",
                                                !.status = "failed",
                                                !.error = "str(e)",
                                                !.execution_time = "measured"]
                          ELSE [NoResult EXCEPT !.task_id = "composite",
                                                !.status = "success",
                                                !.result_data = "result",
                                                !.execution_time = "measured"]]

TaskReturn ==
    /\ task.pc = "done"
    /\ task' = NoTask

NextTask ==
    \/ CompositeRun /\ UNCHANGED <<walletVars, txVars, wait, chain, loop>>
    \/ SeqStart /\ UNCHANGED <<walletVars, txVars, wait, chain, loop>>
    \/ SeqFinish /\ UNCHANGED <<walletVars, txVars, wait, chain, loop>>
    \/ ParStart /\ UNCHANGED <<walletVars, txVars, wait, chain, loop>>
    \/ ParFinish /\ UNCHANGED <<walletVars, txVars, wait, chain, loop>>
    \/ CompositeFinish /\ UNCHANGED <<walletVars, txVars, wait, chain, loop>>
    \/ TaskReturn /\ UNCHANGED <<walletVars, txVars, wait, chain, loop>>

(***************************************************************************)
(* Scoped wallet operations: WalletManager.transfer, approve_token and     *)
(* SwapTask.execute.  Each records the active wallet, switches, runs its   *)
(* body inside try, and restores in finally.                               *)
(***************************************************************************)
BodyBalances == {Failed, Ok(0), Ok(106)}
Amounts      == {95}    \* the amount a caller asks to move

\* WalletManager._transfer_eth: the exception that leaves it (None: the hash
\* is returned).  b1: the node's answer to the balance pre-check.
transfer_eth(S, to, amount, b1, node, b2, submit) ==
    IF ~b1.ok THEN "Web3Exception"
    ELSE IF b1.val < amount THEN "InsufficientFundsError"
    ELSE LET p == prepare_transaction(S.wallet_address, to, amount, None,
                                      NoInt, NoInt, NoInt, node)
         IN  IF p.raised # None THEN p.raised
             ELSE send_transaction(S.account, p.tx, b2, submit).raised

\* the try block of _transfer_erc20 (lines 516-547), before its except
\* clauses.  contract_ok: get_contract and the decimals() call succeed;
\* b1: the answer to balanceOf
erc20_try(S, token, amount, contract_ok, b1, node, b2, submit) ==
    IF ~contract_ok THEN "ContractError"
    ELSE IF ~b1.ok THEN "Web3Exception"
    ELSE IF b1.val < amount THEN "InsufficientFundsError"
    ELSE LET p == prepare_transaction(S.wallet_address, token, 0, "0xdata",
                                      NoInt, NoInt, NoInt, node)
         IN  IF p.raised # None THEN p.raised
             ELSE send_transaction(S.account, p.tx, b2, submit).raised

\* WalletManager._transfer_erc20: except InsufficientFundsError: raise;
\* except Exception: raise WalletError
transfer_erc20(S, token, amount, contract_ok, b1, node, b2, submit) ==
    LET e == erc20_try(S, token, amount, contract_ok, b1, node, b2, submit)
    IN  IF e \in {None, "InsufficientFundsError"} THEN e ELSE "WalletError"

\* the try block of approve_token (lines 581-629) and its except clause
approve_body(S, token, contract_ok, node, b2, submit) ==
    LET e == IF ~contract_ok THEN "ContractError"
             ELSE LET p == prepare_transaction(S.wallet_address, token, 0, "0xdata",
                                               NoInt, NoInt, NoInt, node)
                  IN  IF p.raised # None THEN p.raised
                      ELSE send_transaction(S.account, p.tx, b2, submit).raised
    IN  IF e = None THEN None ELSE "WalletError"

\* what can leave the try block of SwapTask.execute (lines 131-226)
SwapOutcomes == {None, "TypeError", "ContractError", "ValueError", "WalletError",
                 "InsufficientFundsError", "TransactionError"}

\* transfer / approve_token, up to the try: resolve the wallet, record the
\* active wallet, switch if it differs
scoped_enter(S, wallet_name) ==
    LET g == get_wallet_for_operation(S, wallet_name)
    IN  IF g.raised # None
        THEN [S |-> S, raised |-> g.raised, wallet |-> None, original |-> None,
              switched |-> FALSE]
        ELSE LET original_active == S.active_wallet_name
                 S1 == IF g.wallet # original_active
                       THEN set_active_wallet(S, g.wallet)
                       ELSE S
             IN  [S |-> S1, raised |-> S1.raised, wallet |-> g.wallet,
                  original |-> original_active,
                  switched |-> (g.wallet # original_active)]

\* SwapTask.execute, lines 116-128
swap_enter(S, wallet_name, router_ok) ==
    IF ~router_ok
    THEN [S |-> S, raised |-> "TaskConfigurationError", wallet |-> None,
          original |-> None, switched |-> FALSE]
    ELSE IF wallet_name # None /\ S.active_wallet_name # wallet_name
    THEN LET S1 == set_active_wallet(S, wallet_name)
         IN  [S |-> S1, raised |-> S1.raised, wallet |-> wallet_name,
              original |-> S.active_wallet_name,
              switched |-> (S1.raised = None)]
    ELSE [S |-> S, raised |-> None, wallet |-> wallet_name, original |-> None,
          switched |-> FALSE]

\* the restore after the body instead of in a finally clause: skipped when
\* the body raises
scoped_exit_without_finally(S, wallet, original, raised) ==
    IF raised = None /\ wallet # original /\ original # None
    THEN set_active_wallet(S, original)
    ELSE S

\* scoped_exit that puts back the no-active-wallet state as well
scoped_exit_clears(S, wallet, original, raised) ==
    IF wallet # original
    THEN IF original # None
         THEN set_active_wallet(S, original)
         ELSE [S EXCEPT !.active_wallet_name = None]
    ELSE S

\* the finally clause of transfer and approve_token: raised is what left
\* the try block
scoped_exit(S, wallet, original, raised) ==
    IF wallet # original /\ original # None
    THEN set_active_wallet(S, original)
    ELSE S

\* the finally clause of SwapTask.execute
swap_exit(S, original_wallet, raised) ==
    IF original_wallet # None
    THEN set_active_wallet(S, original_wallet)
    ELSE S

OpKinds == {"transfer", "transfer_erc20", "approve_token"}

Entered(kind, wallet_name, e) ==
    /\ Commit(e.S)
    /\ op' = [kind         |-> kind,
              pc           |-> IF e.raised # None THEN "done" ELSE "body",
              wallet_name  |-> wallet_name,
              wallet       |-> e.wallet,
              original     |-> e.original,
              entry_active |-> active_wallet_name,
              entry_address |-> wallet_address,
              switched     |-> e.switched,
              raised       |-> e.raised]
    /\ UNCHANGED <<wallet_directory, last>>

ScopedEnter ==
    \E kind \in OpKinds, wallet_name \in Names \cup {None} :
        /\ op.pc = "idle"
        /\ Entered(kind, wallet_name, scoped_enter(Store, wallet_name))

SwapEnter ==
    \E wallet_name \in Names \cup {None}, router_ok \in BOOLEAN :
        /\ op.pc = "idle"
        /\ Entered("swap", wallet_name, swap_enter(Store, wallet_name, router_ok))

\* the body runs to its end: no other handler runs meanwhile
ScopedBody ==
    \E to \in {"a1", "not_an_address"}, amount \in Amounts, contract_ok \in BOOLEAN,
       b1 \in BodyBalances, b2 \in BodyBalances,
       qp \in NodeAnswers, qc \in CountAnswers, submit \in SubmitAnswers :
        LET node == [gas_price |-> qp, estimate |-> qp, count |-> qc] IN
        /\ op.pc = "body" /\ op.kind \in OpKinds
        /\ op' = [op EXCEPT !.pc = "exit", !.raised =
             CASE op.kind = "transfer" ->
                      transfer_eth(Store, to, amount, b1, node, b2, submit)
               [] op.kind = "transfer_erc20" ->
                      transfer_erc20(Store, to, amount, contract_ok, b1, node, b2, submit)
               [] OTHER ->
                      approve_body(Store, to, contract_ok, node, b2, submit)]
        /\ UNCHANGED <<wallets, active_wallet_name, account, wallet_address,
                       wallet_directory, files, last>>

SwapBody ==
    \E raised \in SwapOutcomes :
        /\ op.pc = "body" /\ op.kind = "swap"
        /\ op' = [op EXCEPT !.pc = "exit", !.raised = raised]
        /\ UNCHANGED <<wallets, active_wallet_name, account, wallet_address,
                       wallet_directory, files, last>>

\* finally; an exception raised in it replaces the one in flight
OpExit ==
    /\ op.pc = "exit"
    /\ LET S == IF op.kind = "swap"
                THEN swap_exit(Store, op.original, op.raised)
                ELSE scoped_exit(Store, op.wallet, op.original, op.raised)
       IN  /\ Commit(S)
           /\ op' = [op EXCEPT !.pc = "done",
                               !.raised = IF S.raised # None THEN S.raised ELSE @]
    /\ UNCHANGED <<wallet_directory, last>>

OpReturn ==
    /\ op.pc = "done"
    /\ op' = NoOp
    /\ UNCHANGED <<wallets, active_wallet_name, account, wallet_address,
                   wallet_directory, files, last>>

GetWallet ==
    \E name \in Names :
        LET S == get_wallet(Store, name) IN
        /\ op.pc = "idle"
        /\ Commit(S)
        /\ last' = Called("get_wallet", S.raised)
        /\ UNCHANGED <<wallet_directory, op>>

NextWallet ==
    \/ AddWallet /\ UNCHANGED <<txVars, wait, task, chain, loop>>
    \/ RemoveWallet /\ UNCHANGED <<txVars, wait, task, chain, loop>>
    \/ SetActiveWallet /\ UNCHANGED <<txVars, wait, task, chain, loop>>
    \/ GetWallet /\ UNCHANGED <<txVars, wait, task, chain, loop>>

NextScoped ==
    \/ AddScopedWallet /\ UNCHANGED <<txVars, wait, task, chain, loop>>
    \/ RemoveWallet /\ UNCHANGED <<txVars, wait, task, chain, loop>>
    \/ SetActiveWallet /\ UNCHANGED <<txVars, wait, task, chain, loop>>
    \/ ScopedEnter /\ UNCHANGED <<txVars, wait, task, chain, loop>>
    \/ SwapEnter /\ UNCHANGED <<txVars, wait, task, chain, loop>>
    \/ ScopedBody /\ UNCHANGED <<txVars, wait, task, chain, loop>>
    \/ SwapBody /\ UNCHANGED <<txVars, wait, task, chain, loop>>
    \/ OpExit /\ UNCHANGED <<txVars, wait, task, chain, loop>>
    \/ OpReturn /\ UNCHANGED <<txVars, wait, task, chain, loop>>

(***************************************************************************)
(* The wallet store and the pipeline together: prepare_transaction called  *)
(* between WalletManager calls, the way _transfer_eth calls it (to, value  *)
(* and nothing else given).                                                *)
(***************************************************************************)
PrepareDefault ==
    \E to \in ToInputs, qc \in CountAnswers :
        LET node == [gas_price |-> Ok(10), estimate |-> Ok(10), count |-> qc]
            r == prepare_transaction(wallet_address, to, 0, None,
                                     NoInt, NoInt, NoInt, node)
        IN  /\ ~prep.called /\ ~sent.called
            /\ prep' = [called |-> TRUE, gas_limit |-> NoInt,
                        gas_price |-> NoInt, nonce |-> NoInt, node |-> node,
                        raised |-> r.raised, tx |-> r.tx]
            /\ sent' = NoSent

\* no pipeline call is waiting for its caller
TxIdle == ~prep.called /\ ~sent.called

NextGateway ==
    \/ TxIdle /\ AddScopedWallet /\ UNCHANGED <<txVars, wait, task, chain, loop>>
    \/ TxIdle /\ RemoveWallet /\ UNCHANGED <<txVars, wait, task, chain, loop>>
    \/ TxIdle /\ SetActiveWallet /\ UNCHANGED <<txVars, wait, task, chain, loop>>
    \/ PrepareDefault /\ UNCHANGED <<walletVars, wait, task, chain, loop>>
    \/ SendPrepared /\ UNCHANGED <<walletVars, wait, task, chain, loop>>
    \/ TxReturn /\ UNCHANGED <<walletVars, wait, task, chain, loop>>

(***************************************************************************)
(* The node's transaction counts.  w3.eth.get_transaction_count(address)   *)
(* answers the number of transactions of the address that are mined.       *)
(* chain.resolved and chain.mined remember, per address, the nonce the     *)
(* last prepare_transaction without a nonce override resolved and whether  *)
(* a transaction of the address was mined since; chain.cur is the latest   *)
(* such call: what it resolved, what the count was, and what was           *)
(* remembered for its address when it was made.                            *)
(***************************************************************************)
MaxMined == 2    \* how many transactions of one address are mined in a run

NoResolve == [addr |-> None, nonce |-> 0, count |-> 0,
              before |-> NoInt, mined |-> FALSE]
NoChain == [count    |-> [a \in Addresses |-> 0],
            resolved |-> [a \in Addresses |-> NoInt],
            mined    |-> [a \in Addresses |-> FALSE],
            cur      |-> NoResolve]

\* MonadClient.get_transaction_count as prepare_transaction calls it
get_transaction_count(address, reachable) ==
    IF reachable /\ address # None THEN Ok(chain.count[address]) ELSE Failed

\* prepare_transaction against the node, with and without a nonce override
PrepareOnChain ==
    \E to \in ToInputs, nonce \in {NoInt, Some(0)}, reachable \in BOOLEAN :
        LET node == [gas_price |-> Ok(10), estimate |-> Ok(10),
                     count |-> get_transaction_count(wallet_address, reachable)]
            r == prepare_transaction(wallet_address, to, 0, None,
                                     NoInt, NoInt, nonce, node)
        IN  /\ ~prep.called /\ ~sent.called
            /\ prep' = [called |-> TRUE, gas_limit |-> NoInt,
                        gas_price |-> NoInt, nonce |-> nonce, node |-> node,
                        raised |-> r.raised, tx |-> r.tx]
            /\ sent' = NoSent
            /\ chain' = IF r.raised = None /\ ~nonce.some
                        THEN [chain EXCEPT
                                !.resolved[wallet_address] = r.tx.nonce,
                                !.mined[wallet_address] = FALSE,
                                !.cur = [addr   |-> wallet_address,
                                         nonce  |-> r.tx.nonce.val,
                                         count  |-> chain.count[wallet_address],
                                         before |-> chain.resolved[wallet_address],
                                         mined  |-> chain.mined[wallet_address]]]
                        ELSE chain

\* the network mines a transaction of a stored wallet's address
Mine ==
    \E n \in DOMAIN wallets :
        LET a == wallets[n].address IN
        /\ chain.count[a] < MaxMined
        /\ chain' = [chain EXCEPT !.count[a] = @ + 1, !.mined[a] = TRUE]

NextNonce ==
    \/ TxIdle /\ SetActiveWallet /\ UNCHANGED <<txVars, wait, task, chain, loop>>
    \/ PrepareOnChain /\ UNCHANGED <<walletVars, wait, task, loop>>
    \/ SendPrepared /\ UNCHANGED <<walletVars, wait, task, chain, loop>>
    \/ TxReturn /\ UNCHANGED <<walletVars, wait, task, chain, loop>>
    \/ Mine /\ UNCHANGED <<walletVars, txVars, wait, task, loop>>

(***************************************************************************)
(* The event loop under asyncio.gather (ParallelTask.execute).  Each       *)
(* gathered coroutine is the run of a subtask that calls                   *)
(* WalletManager.transfer for its wallet and then                          *)
(* MonadClient.wait_for_transaction_receipt.  co[i].pc is the statement    *)
(* coroutine i is at: "ready" (scheduled, not started), "rpc_prepare" and  *)
(* "rpc_send" (inside the scope of transfer, at the node calls of          *)
(* prepare_transaction and send_transaction), "rpc_receipt" (at            *)
(* get_transaction_receipt), "sleep" (at the sleep between polls),         *)
(* "done".  loop.running is the coroutine that holds the thread, 0 when    *)
(* control is with the event loop.  The poll's deadline is in the model of *)
(* wait_for_transaction_receipt above.                                     *)
(***************************************************************************)
MaxGathered == 2    \* how many coroutines one gather runs

NoLoop == [running |-> 0, co |-> <<>>, entry_active |-> None]

NoCo == [wallet_name |-> None, pc |-> "ready", wallet |-> None,
         original |-> None, tx |-> NoTx, signer |-> None, raised |-> None]

\* the statement a coroutine is at
stmt(pc) == IF pc = "sleep" THEN "sleep" ELSE "rpc"

\* what the statements would be on an asynchronous provider with
\* asyncio.sleep: each hands control to the event loop
suspends_async(s) == s \in {"gather", "rpc", "sleep"}

\* whether a statement hands control to the event loop: the node calls are
\* plain calls on self.w3 (an HTTPProvider) and the sleep is time.sleep;
\* the await of gather is the one await of a pending future
suspends(s) == s = "gather"

\* coroutine i may take its next step: it holds the thread, or the event
\* loop does and i is the first scheduled or waits on something that came
CanRun(i) ==
    /\ loop.co[i].pc # "done"
    /\ \/ loop.running = i
       \/ /\ loop.running = 0
          /\ loop.co[i].pc = "ready" => \A k \in 1..(i - 1) : loop.co[k].pc # "ready"

\* coroutine i goes on as c
Advance(i, c) ==
    loop' = [loop EXCEPT !.co[i] = c,
                         !.running = IF c.pc = "done" \/ suspends(stmt(c.pc))
                                     THEN 0 ELSE i]

\* ParallelTask.execute: the coroutines are created and gathered
Gather ==
    \E names \in [1..MaxGathered -> ScopedNames] :
        /\ loop.co = <<>>
        /\ loop' = [running |-> 0,
                    co |-> [i \in 1..MaxGathered |->
                              [NoCo EXCEPT !.wallet_name = names[i]]],
                    entry_active |-> active_wallet_name]
        /\ UNCHANGED walletVars

\* transfer up to its first node call: the wallet is looked up and made
\* active, prepare_transaction is entered
CoStart ==
    \E i \in DOMAIN loop.co :
        LET c == loop.co[i]
            e == scoped_enter(Store, c.wallet_name)
        IN  /\ CanRun(i) /\ c.pc = "ready"
            /\ Commit(e.S)
            /\ Advance(i, [c EXCEPT !.pc = IF e.raised # None THEN "done"
                                           ELSE "rpc_prepare",
                                    !.wallet = e.wallet,
                                    !.original = e.original,
                                    !.raised = e.raised])
            /\ UNCHANGED <<wallet_directory, last, op>>

\* the node answers prepare_transaction; a failure leaves transfer through
\* its finally clause
CoPrepare ==
    \E i \in DOMAIN loop.co, qc \in CountAnswers :
        LET c == loop.co[i]
            node == [gas_price |-> Ok(10), estimate |-> Ok(10), count |-> qc]
            r == prepare_transaction(wallet_address, "a3_lower", 0, None,
                                     NoInt, NoInt, NoInt, node)
            S == IF r.raised # None
                 THEN scoped_exit(Store, c.wallet, c.original, r.raised)
                 ELSE Store
        IN  /\ CanRun(i) /\ c.pc = "rpc_prepare"
            /\ Commit(S)
            /\ Advance(i, [c EXCEPT !.pc = IF r.raised # None THEN "done"
                                           ELSE "rpc_send",
                                    !.tx = r.tx,
                                    !.raised = r.raised])
            /\ UNCHANGED <<wallet_directory, last, op>>

\* the node answers send_transaction; transfer returns through its finally
\* clause and wait_for_transaction_receipt is entered
CoSend ==
    \E i \in DOMAIN loop.co, funded \in BOOLEAN, submit \in SubmitAnswers :
        LET c == loop.co[i]
            balance == Ok(IF funded THEN required(c.tx) ELSE 0)
            r == send_transaction(account, c.tx, balance, submit)
            S == scoped_exit(Store, c.wallet, c.original, r.raised)
        IN  /\ CanRun(i) /\ c.pc = "rpc_send"
            /\ Commit(S)
            /\ Advance(i, [c EXCEPT !.pc = IF r.raised # None THEN "done"
                                           ELSE "rpc_receipt",
                                    !.signer = IF r.submitted THEN account ELSE None,
                                    !.raised = r.raised])
            /\ UNCHANGED <<wallet_directory, last, op>>

\* the node answers get_transaction_receipt: a receipt, or none yet
CoReceipt ==
    \E i \in DOMAIN loop.co, found \in BOOLEAN :
        LET c == loop.co[i] IN
        /\ CanRun(i) /\ c.pc = "rpc_receipt"
        /\ Advance(i, [c EXCEPT !.pc = IF found THEN "done" ELSE "sleep"])
        /\ UNCHANGED walletVars

\* the sleep between two polls is over
CoWake ==
    \E i \in DOMAIN loop.co :
        LET c == loop.co[i] IN
        /\ CanRun(i) /\ c.pc = "sleep"
        /\ Advance(i, [c EXCEPT !.pc = "rpc_receipt"])
        /\ UNCHANGED walletVars

\* every coroutine is done: gather returns to ParallelTask.execute
GatherReturn ==
    /\ loop.co # <<>>
    /\ \A i \in DOMAIN loop.co : loop.co[i].pc = "done"
    /\ loop' = NoLoop
    /\ UNCHANGED walletVars

NextLoop ==
    \/ Gather /\ UNCHANGED <<txVars, wait, task, chain>>
    \/ CoStart /\ UNCHANGED <<txVars, wait, task, chain>>
    \/ CoPrepare /\ UNCHANGED <<txVars, wait, task, chain>>
    \/ CoSend /\ UNCHANGED <<txVars, wait, task, chain>>
    \/ CoReceipt /\ UNCHANGED <<txVars, wait, task, chain>>
    \/ CoWake /\ UNCHANGED <<txVars, wait, task, chain>>
    \/ GatherReturn /\ UNCHANGED <<txVars, wait, task, chain>>
    \/ loop.co = <<>> /\ SetActiveWallet /\ UNCHANGED <<txVars, wait, task, chain, loop>>

(***************************************************************************)
(* WalletManager.load_wallets.  The directory is the map files: file stem  *)
(* -> the record in the file.  A file that cannot be opened or is not JSON *)
(* or holds no "name" is the record Unreadable.  glob lists the files in   *)
(* an order the file system chooses; each file is read when its turn       *)
(* comes, so it is read as earlier iterations left it.                     *)
(***************************************************************************)
Unreadable == [name |-> None, address |-> None, private_key |-> None]
BadKey     == [name |-> "A", address |-> "a1", private_key |-> "bad_key"]
BadAddress == [name |-> "B", address |-> "not_an_address", private_key |-> None]

\* what a wallet file may hold
Records ==
    {to_dict(w) : w \in {v \in WalletInputs : v.name \in ScopedNames}}
        \cup {Unreadable, BadKey, BadAddress}

\* the directories load_wallets may find
Directories == UNION {[stems -> Records] : stems \in SUBSET Names}

\* Wallet.from_dict after json.load: the exception raised, or the wallet
from_dict(data) ==
    IF data.name = None THEN [raised |-> "Exception", wallet |-> None]
    ELSE IF data.private_key # None
    THEN IF with_0x(data.private_key) \in Keys
         THEN [raised |-> None,
               wallet |-> from_private_key(data.name, data.private_key)]
         ELSE [raised |-> "ValueError", wallet |-> None]
    ELSE IF is_address(data.address)
    THEN [raised |-> None,
          wallet |-> Wallet(data.name, to_checksum_address(data.address), None, None)]
    ELSE [raised |-> "ValueError", wallet |-> None]

\* one iteration of the loop of load_wallets: try ... except Exception
load_wallet_file(S, stem, io_ok) ==
    LET p == from_dict(S.files[stem]) IN
    IF p.raised # None THEN S
    ELSE [add_wallet(S, p.wallet, io_ok) EXCEPT !.raised = None]

RECURSIVE load_files(_, _, _)
load_files(S, wallet_files, io_ok) ==
    IF wallet_files = <<>> THEN S
    ELSE load_files(load_wallet_file(S, Head(wallet_files), io_ok),
                    Tail(wallet_files), io_ok)

\* WalletManager.load_wallets; wallet_files: the files in glob's order
load_wallets(S, wallet_files, io_ok) ==
    IF ~wallet_directory THEN S
    ELSE load_files(S, wallet_files, io_ok)

\* the orders glob may list a set of files in
Orders(stems) ==
    {o \in [1..Cardinality(stems) -> stems] :
        \A i \in DOMAIN o, j \in DOMAIN o : o[i] = o[j] => i = j}

LoadWallets ==
    \E wallet_files \in Orders(DOMAIN files), io_ok \in BOOLEAN :
        LET S == load_wallets(Store, wallet_files, io_ok) IN
        /\ op.pc = "idle"
        /\ Commit(S)
        /\ last' = Called("load_wallets", S.raised)
        /\ UNCHANGED <<wallet_directory, op>>

NextLoad ==
    \/ LoadWallets /\ UNCHANGED <<txVars, wait, task, chain, loop>>
    \/ RemoveWallet /\ UNCHANGED <<txVars, wait, task, chain, loop>>

(***************************************************************************)
(* BaseTask.run on the value execute() returned.  A value is its type and, *)
(* by type, its text (a string: the sequence of its characters), whether   *)
(* it has a "tx_hash" key and what is under it (a dict), or nothing more.  *)
(***************************************************************************)
Texts == {<<>>, <<"0">>, <<"0", "x">>, <<"0", "x", "a", "b">>,
          <<"0", "X", "a", "b">>, <<"a", "0", "x">>}

Values_returned ==
    [type : {"dict"}, text : {<<>>}, has_tx_hash : BOOLEAN,
     tx_hash : {<<"0", "x", "a", "b">>, <<"a", "0", "x">>}, truthy : BOOLEAN]
    \cup [type : {"str"}, text : Texts, has_tx_hash : {FALSE},
          tx_hash : {<<>>}, truthy : {TRUE}]
    \cup [type : {"int", "list", "bool"}, text : {<<>>}, has_tx_hash : {FALSE},
          tx_hash : {<<>>}, truthy : BOOLEAN]
    \cup [type : {"none"}, text : {<<>>}, has_tx_hash : {FALSE},
          tx_hash : {<<>>}, truthy : {FALSE}]

\* str.startswith
startswith(s, prefix) ==
    /\ Len(s) >= Len(prefix)
    /\ \A i \in 1..Len(prefix) : s[i] = prefix[i]

NoHash == [set |-> FALSE, val |-> <<>>]
NoValue == [type |-> "none", text |-> <<>>, has_tx_hash |-> FALSE,
            tx_hash |-> <<>>, truthy |-> FALSE]

\* result_data: the default {}, the dict execute() returned, or {"value": v}
NoData == [shape |-> "empty", payload |-> NoValue]

\* run with "elif result:" for "elif result is not None:" - a value that
\* is false in a condition (0, [], False, "") is dropped
task_result_truthy(task_id, result) ==
    [task_id |-> task_id, status |-> "success", error |-> None,
     tx_hash |->
        IF result.type = "dict"
        THEN IF result.has_tx_hash THEN [set |-> TRUE, val |-> result.tx_hash]
             ELSE NoHash
        ELSE IF result.type = "str" /\ startswith(result.text, <<"0", "x">>)
        THEN [set |-> TRUE, val |-> result.text]
        ELSE NoHash,
     result_data |->
        IF result.type = "dict" THEN [shape |-> "mapping", payload |-> result]
        ELSE IF result.type = "str" /\ startswith(result.text, <<"0", "x">>)
        THEN NoData
        ELSE IF result.type # "none"
                /\ (IF result.type = "str" THEN result.text # <<>> ELSE result.truthy)
        THEN [shape |-> "wrapped", payload |-> result]
        ELSE NoData]

\* BaseTask.run, lines 110-129: the TaskResult for the value execute()
\* returned
task_result(task_id, result) ==
    [task_id |-> task_id, status |-> "success", error |-> None,
     tx_hash |->
        IF result.type = "dict"
        THEN IF result.has_tx_hash THEN [set |-> TRUE, val |-> result.tx_hash]
             ELSE NoHash
        ELSE IF result.type = "str" /\ startswith(result.text, <<"0", "x">>)
        THEN [set |-> TRUE, val |-> result.text]
        ELSE NoHash,
     result_data |->
        IF result.type = "dict" THEN [shape |-> "mapping", payload |-> result]
        ELSE IF result.type = "str" /\ startswith(result.text, <<"0", "x">>)
        THEN NoData
        ELSE IF result.type # "none"
        THEN [shape |-> "wrapped", payload |-> result]
        ELSE NoData]

\* BaseTask.run, lines 131-141: the TaskResult when execute() raised
task_failed(task_id) ==
    [task_id |-> task_id, status |-> "failed", error |-> "str(e)",
     tx_hash |-> NoHash, result_data |-> NoData]

\* run is entered on a leaf task; execute() will return `returns` or raise
RunStart ==
    \E task_id \in TaskIds, returns \in Values_returned, raises \in BOOLEAN :
        /\ task.pc = "idle"
        /\ task' = [pc |-> "executing", task_id |-> task_id, returns |-> returns,
                    raises |-> raises, result |-> task_failed(None)]

\* execute() is over and run returns its TaskResult
RunFinish ==
    /\ task.pc = "executing"
    /\ task' = [task EXCEPT !.pc = "returned",
                            !.result = IF task.raises THEN task_failed(task.task_id)
                                       ELSE task_result(task.task_id, task.returns)]

NextRun ==
    \/ RunStart /\ UNCHANGED <<walletVars, txVars, wait, chain, loop>>
    \/ RunFinish /\ UNCHANGED <<walletVars, txVars, wait, chain, loop>>

(***************************************************************************)
(* A parallel composite whose subtasks' runs may fault: an error leaves    *)
(* run itself (raised while the except clause builds the failed result),   *)
(* and gather hands it back in the subtask's place.                        *)
(***************************************************************************)
ParSubtasks == [task_id : TaskIds, execute : {"dict_tx_hash", "raises"}]

ParallelRun ==
    \E subtasks \in SeqsUpTo(ParSubtasks, MaxSubtasks) :
        /\ task.pc = "idle"
        /\ task' = [NoTask EXCEPT !.pc = "running", !.kind = "parallel",
                                  !.subtasks = subtasks,
                                  !.status = [j \in 1..Len(subtasks) |-> "created"],
                                  !.outs = [j \in 1..Len(subtasks) |-> NoOut]]

\* a subtask's run raises: gather keeps the error at the subtask's index
ParFault ==
    \E j \in 1..Len(task.subtasks) :
        /\ task.pc = "running" /\ task.kind = "parallel"
        /\ task.status[j] = "running"
        /\ task' = [task EXCEPT !.status[j] = "raised",
                                !.outs[j] = [raised |-> "Exception", r |-> NoResult]]

NextParallel ==
    \/ ParallelRun /\ UNCHANGED <<walletVars, txVars, wait, chain, loop>>
    \/ ParStart /\ UNCHANGED <<walletVars, txVars, wait, chain, loop>>
    \/ ParFinish /\ UNCHANGED <<walletVars, txVars, wait, chain, loop>>
    \/ ParFault /\ UNCHANGED <<walletVars, txVars, wait, chain, loop>>
    \/ CompositeFinish /\ UNCHANGED <<walletVars, txVars, wait, chain, loop>>
    \/ TaskReturn /\ UNCHANGED <<walletVars, txVars, wait, chain, loop>>

(***************************************************************************)
(* Constructing wallets.  A caller builds a Wallet in one of four ways and *)
(* adds it; a later run of the program starts with a new WalletManager and *)
(* loads the records the earlier run persisted.                            *)
(***************************************************************************)
ConstructNames == {"A"}

\* Wallet(name, address, private_key): address and key are both the caller's
ConstructorWallets ==
    {Wallet(n, to_checksum_address(a), k, None) :
        n \in ConstructNames, a \in {"a1", "a3_lower"}, k \in {None, "k1"}}

ConstructedWallets ==
    {from_private_key(n, k) :
        n \in ConstructNames, k \in Keys \cup {"k1_bare"}}
        \cup {from_mnemonic(n, m, b) :
                n \in ConstructNames, m \in Mnemonics, b \in BOOLEAN}
        \cup {from_dict(to_dict(w)).wallet : w \in ConstructorWallets}
        \cup ConstructorWallets

AddConstructed == AddWalletFrom(ConstructedWallets)

\* WalletManager.__init__ over the directory as it is, then load_wallets;
\* the gateway is a new MonadClient
Restart ==
    \E wallet_files \in Orders(DOMAIN files), io_ok \in BOOLEAN :
        LET S0 == [Store EXCEPT !.wallets = EmptyMap,
                                !.active_wallet_name = None,
                                !.account = None,
                                !.wallet_address = None]
            S  == load_wallets(S0, wallet_files, io_ok)
        IN  /\ op.pc = "idle"
            /\ last.call # "load_wallets"
            /\ Commit(S)
            /\ last' = [Called("load_wallets", S.raised) EXCEPT !.io_failures = 0]
            /\ UNCHANGED <<wallet_directory, op>>

NextConstruct ==
    \/ AddConstructed /\ UNCHANGED <<txVars, wait, task, chain, loop>>
    \/ RemoveWallet /\ UNCHANGED <<txVars, wait, task, chain, loop>>
    \/ Restart /\ UNCHANGED <<txVars, wait, task, chain, loop>>

(***************************************************************************)
(* Composites as subtasks.  A MultiTask or ParallelTask is a BaseTask: an  *)
(* outer sequential composite calls its run like that of any subtask.      *)
(* "inner" is the subtask list of an inner composite, <<>> for a leaf.     *)
(***************************************************************************)
InnerSubtasks == [task_id : {"i1", "i2"}, execute : {"dict", "raises"}]
\* the subtask lists of an inner composite: one subtask, or one followed by
\* a subtask that succeeds
InnerLists ==
    {<<x>> : x \in InnerSubtasks}
        \cup {<<x, [task_id |-> "i2", execute |-> "dict"]>> : x \in InnerSubtasks}

NestedSubtasks ==
    {[task_id |-> id, execute |-> e, inner |-> <<>>] :
        id \in TaskIds, e \in {"dict", "raises"}}
        \cup {[task_id |-> id, execute |-> kind, inner |-> s] :
                id \in TaskIds, kind \in {"sequential", "parallel"}, s \in InnerLists}

\* MultiTask.execute as a function of the subtask list: the results
\* dictionary when the loop is left, i the subtask the loop is at
RECURSIVE sequential_results(_, _, _)
sequential_results(subtasks, i, results) ==
    IF i > Len(subtasks) THEN results
    ELSE LET r == run(subtasks[i]).r
             put == Put(results, subtasks[i].task_id, r)
         IN  IF ~is_success(r) THEN put
             ELSE sequential_results(subtasks, i + 1, put)

\* execute() of an inner composite: its "subtask_results"
subtask_results(t) ==
    IF t.execute = "sequential"
    THEN sequential_results(t.inner, 1, EmptyMap)
    ELSE collect(t.inner, [j \in 1..Len(t.inner) |-> run(t.inner[j])], Len(t.inner))

\* some subtask of the inner composite failed
subtask_failed(t) ==
    \E k \in DOMAIN subtask_results(t) : ~is_success(subtask_results(t)[k])

\* run of a composite that reports a failed subtask as its own failure
run_nested_strict(t) ==
    IF t.inner = <<>> THEN run(t)
    ELSE [raised |-> None,
          r |-> [task_id |-> t.task_id,
                 status |-> IF subtask_failed(t) THEN "failed" ELSE "success",
                 tx_hash |-> None,
                 result_data |-> "result", error |-> None,
                 execution_time |-> "measured"]]

\* BaseTask.run of a subtask that may be a composite: execute returned the
\* dictionary {"subtask_results": ...}, which has no "tx_hash" key
run_nested(t) ==
    IF t.inner = <<>> THEN run(t)
    ELSE [raised |-> None,
          r |-> [task_id |-> t.task_id, status |-> "success", tx_hash |-> None,
                 result_data |-> "result", error |-> None,
                 execution_time |-> "measured"]]

\* run of an outer MultiTask over two subtasks
NestedRun ==
    \E first \in NestedSubtasks, second \in NestedSubtasks :
        /\ task.pc = "idle"
        /\ task' = [NoTask EXCEPT !.pc = "running", !.kind = "sequential",
                                  !.subtasks = <<first, second>>,
                                  !.status = <<"created", "created">>,
                                  !.outs = <<NoOut, NoOut>>]

\* MultiTask.execute of the outer composite: subtask.run returned
NestedFinish ==
    /\ task.pc = "running" /\ task.kind = "sequential"
    /\ task.i <= Len(task.subtasks)
    /\ task.status[task.i] = "running"
    /\ LET t == task.subtasks[task.i]
           out == run_nested(t)
       IN  task' = [task EXCEPT !.status[task.i] = out.r.status,
                                !.outs[task.i] = out,
                                !.results = Put(@, t.task_id, out.r),
                                !.broke = ~is_success(out.r),
                                !.i = @ + 1]

NextNested ==
    \/ NestedRun /\ UNCHANGED <<walletVars, txVars, wait, chain, loop>>
    \/ SeqStart /\ UNCHANGED <<walletVars, txVars, wait, chain, loop>>
    \/ NestedFinish /\ UNCHANGED <<walletVars, txVars, wait, chain, loop>>
    \/ CompositeFinish /\ UNCHANGED <<walletVars, txVars, wait, chain, loop>>
    \/ TaskReturn /\ UNCHANGED <<walletVars, txVars, wait, chain, loop>>

(***************************************************************************)
(* Specifications: one per component.                                      *)
(***************************************************************************)
Idle ==
    /\ prep = NoPrep /\ sent = NoSent /\ wait = NoWait /\ task = NoTask
    /\ chain = NoChain /\ loop = NoLoop

\* WalletManager.__init__ and MonadClient.__init__
InitWallet ==
    /\ wallets = EmptyMap
    /\ active_wallet_name = None
    /\ account = None
    /\ wallet_address = None
    /\ wallet_directory \in BOOLEAN
    /\ files = EmptyMap
    /\ last = NoCall
    /\ op = NoOp
    /\ Idle

\* the same, with WALLET_DIRECTORY set to the empty string
InitScoped ==
    /\ wallets = EmptyMap
    /\ active_wallet_name = None
    /\ account = None
    /\ wallet_address = None
    /\ wallet_directory = FALSE
    /\ files = EmptyMap
    /\ last = NoCall
    /\ op = NoOp
    /\ Idle

\* a gateway holding one of the identities WalletManager can leave in it
InitGateway ==
    /\ wallets = EmptyMap
    /\ active_wallet_name = None
    /\ account \in {None, "k1"}
    /\ wallet_address \in {None, "a1", "a3"}
    /\ account # None => wallet_address # None
    /\ wallet_directory = TRUE
    /\ files = EmptyMap
    /\ last = NoCall
    /\ op = NoOp
    /\ Idle

\* two key wallets stored, the first one added active (add_wallet twice)
InitNonce ==
    /\ wallets = [n \in {"A", "B"} |->
                    from_private_key(n, IF n = "A" THEN "k1" ELSE "k2")]
    /\ active_wallet_name = "A"
    /\ account = "k1"
    /\ wallet_address = "a1"
    /\ wallet_directory = FALSE
    /\ files = EmptyMap
    /\ last = NoCall
    /\ op = NoOp
    /\ Idle

\* a new WalletManager over a directory that holds files already
InitLoad ==
    /\ wallets = EmptyMap
    /\ active_wallet_name = None
    /\ account = None
    /\ wallet_address = None
    /\ wallet_directory \in BOOLEAN
    /\ files \in Directories
    /\ ~wallet_directory => files = EmptyMap
    /\ last = NoCall
    /\ op = NoOp
    /\ Idle

SpecWallet == InitWallet /\ [][NextWallet]_vars

SpecScoped == InitScoped /\ [][NextScoped]_vars

SpecTx == InitGateway /\ [][NextTx]_vars

SpecWait == InitScoped /\ [][NextWait]_vars

\* the poll keeps taking steps, and the clock does not stand still for ever
SpecWaitFair == SpecWait /\ WF_vars(NextWait) /\ SF_vars(ClockAdvances)

SpecTask == InitScoped /\ [][NextTask]_vars

SpecGateway == InitScoped /\ [][NextGateway]_vars

SpecNonce == InitNonce /\ [][NextNonce]_vars

SpecLoop == InitNonce /\ [][NextLoop]_vars

SpecLoad == InitLoad /\ [][NextLoad]_vars

SpecRun == InitScoped /\ [][NextRun]_vars

SpecParallel == InitScoped /\ [][NextParallel]_vars

SpecConstruct == InitWallet /\ [][NextConstruct]_vars

SpecNested == InitScoped /\ [][NextNested]_vars

(***************************************************************************)
(* Claims C1 - C10                                                         *)
(***************************************************************************)

\* C1: a scoped wallet operation (transfer, approve_token, SwapTask.execute
\* with wallet_name) invoked for wallet B while a different wallet A is the
\* active one has, on every exit path - raising before the switch, the body
\* returning, the body raising - A as the active wallet name again and A's
\* address as the gateway's current sending address.
C1_ScopedRestore ==
    (/\ op.pc = "done"
     /\ op.entry_active # None
     /\ op.wallet_name \notin {None, op.entry_active})
    => /\ op.entry_active \in DOMAIN wallets
       /\ active_wallet_name = op.entry_active
       /\ wallet_address = wallets[op.entry_active].address

\* C1, what the finally clauses do give: the name is A again on every exit
\* path, and the sending address is A's whenever the operation switched
\* wallets or the gateway held A's address when the operation was entered.
C1_RestoreWhenInSync ==
    (/\ op.pc = "done"
     /\ op.entry_active # None
     /\ op.wallet_name \notin {None, op.entry_active})
    => /\ op.entry_active \in DOMAIN wallets
       /\ active_wallet_name = op.entry_active
       /\ (op.switched \/ op.entry_address = wallets[op.entry_active].address)
            => wallet_address = wallets[op.entry_active].address

\* transfer for B while A was active switched to B, its body raised, and the
\* operation has exited
C1_Witness ==
    /\ op.pc = "done" /\ op.kind = "transfer"
    /\ op.entry_active = "A" /\ op.wallet_name = "B"
    /\ op.switched /\ op.raised = "InsufficientFundsError"
    /\ active_wallet_name = "A"
    /\ wallet_address = wallets["A"].address

\* C2: after any sequence of add_wallet, remove_wallet and set_active_wallet
\* calls, successful or failing, the active wallet name is unset or a key of
\* the wallets map, and list_wallets marks at most one wallet as active.
C2_ActiveInStore ==
    /\ active_wallet_name = None \/ active_wallet_name \in DOMAIN wallets
    /\ Cardinality({w \in list_wallets : w.is_active}) <= 1

\* the active wallet has just been removed from a store that keeps others
C2_Witness ==
    /\ last.call = "remove_wallet" /\ last.raised = None
    /\ active_wallet_name = None
    /\ DOMAIN wallets # {}

\* C3: a sequential composite runs its subtasks in list order and stops
\* after the first subtask whose result is not successful; no later subtask
\* is executed, and subtask_results holds exactly the entries of the
\* subtasks that were executed - one entry each, the subtask's own result -
\* while the subtasks not run are absent.
C3_SequentialFailFast ==
    (task.pc = "done" /\ task.kind = "sequential")
    => LET n == Len(task.executed)
           last_run == 1..n
       IN  /\ task.executed = [j \in 1..n |-> j]
           /\ \A j \in last_run : j < n => is_success(task.outs[j].r)
           /\ n < Len(task.subtasks) => n >= 1 /\ ~is_success(task.outs[n].r)
           /\ \A j \in DOMAIN task.subtasks : j > n => task.status[j] = "created"
           /\ \A j \in last_run :
                 /\ task.subtasks[j].task_id \in DOMAIN task.results
                 /\ task.results[task.subtasks[j].task_id] = task.outs[j].r
           /\ Cardinality(DOMAIN task.results) = n
           /\ DOMAIN task.results = {task.subtasks[j].task_id : j \in last_run}

\* C3, for subtask lists whose task ids are pairwise different: in list
\* order, stopped after the first failure, one entry per executed subtask.
C3_FailFastDistinctIds ==
    (\A i, j \in DOMAIN task.subtasks :
        i # j => task.subtasks[i].task_id # task.subtasks[j].task_id)
    => C3_SequentialFailFast

\* [T1 (execute raises), T2]: T2 was never started and has no entry
C3_Witness ==
    /\ task.pc = "done" /\ task.kind = "sequential"
    /\ Len(task.subtasks) = 2
    /\ task.subtasks[1].task_id # task.subtasks[2].task_id
    /\ task.status = <<"failed", "created">>
    /\ DOMAIN task.results = {task.subtasks[1].task_id}

\* C4: a parallel composite starts every subtask and waits for all of them;
\* subtask_results has one entry per subtask, each entry that subtask's own
\* result, whatever the mix of outcomes and the completion order.
C4_ParallelAllEntries ==
    (task.pc = "done" /\ task.kind = "parallel")
    => /\ \A j \in DOMAIN task.subtasks : task.status[j] \in {"success", "failed"}
       /\ Cardinality(DOMAIN task.results) = Len(task.subtasks)
       /\ \A j \in DOMAIN task.subtasks :
             /\ task.subtasks[j].task_id \in DOMAIN task.results
             /\ task.results[task.subtasks[j].task_id] = task.outs[j].r

\* C4, for subtask lists whose task ids are pairwise different: one entry
\* per subtask, each the subtask's own result.
C4_EntriesDistinctIds ==
    (\A i, j \in DOMAIN task.subtasks :
        i # j => task.subtasks[i].task_id # task.subtasks[j].task_id)
    => C4_ParallelAllEntries

\* a failed and a successful sibling: both have their entries
C4_Witness ==
    /\ task.pc = "done" /\ task.kind = "parallel"
    /\ Len(task.subtasks) = 2
    /\ task.subtasks[1].task_id # task.subtasks[2].task_id
    /\ task.status = <<"failed", "success">>
    /\ Cardinality(DOMAIN task.results) = 2

\* C5: run() never raises.  A run goes Created -> Running -> one terminal
\* outcome and returns one TaskResult: status success when execute returned,
\* status failed with the error text when execute raised, never pending.
\* (execute raises errors derived from Exception, the ones run's except
\* clause names; KeyboardInterrupt and the like are not operation errors.)
C5_RunState ==
    /\ task.pc = "done" => task.result.status \in {"success", "failed"}
    /\ \A j \in DOMAIN task.subtasks :
          /\ task.status[j] \in {"created", "running", "success", "failed"}
          /\ task.status[j] \in {"created", "running"} => task.outs[j] = NoOut
          /\ task.status[j] \in {"success", "failed"} =>
                /\ task.outs[j].raised = None
                /\ task.outs[j].r.status = task.status[j]
                /\ task.outs[j].r.task_id = task.subtasks[j].task_id
                /\ (task.status[j] = "success") = (task.subtasks[j].execute # "raises")
                /\ task.status[j] = "failed" => task.outs[j].r.error = "str(e)"
                /\ task.status[j] = "success" => task.outs[j].r.error = None

C5_RunSteps ==
    (task'.pc # "idle" /\ task.pc # "idle")
    => \A j \in DOMAIN task.subtasks :
          \/ task'.status[j] = task.status[j]
          \/ task.status[j] = "created" /\ task'.status[j] = "running"
          \/ task.status[j] = "running" /\ task'.status[j] \in {"success", "failed"}

C6_FundsCheck ==
    sent.called =>
        LET need == Get(sent.tx_params.value)
                      + Get(sent.tx_params.gas) * Get(sent.tx_params.gasPrice)
        IN  /\ sent.submitted => sent.balance.ok /\ sent.balance.val >= need
            /\ sent.raised = "InsufficientFundsError" => ~sent.submitted
            /\ (account # None /\ sent.balance.ok) =>
                  /\ sent.submitted = (sent.balance.val >= need)
                  /\ (sent.raised = "InsufficientFundsError") = (sent.balance.val < need)

\* balance 100, gasLimit 10, gasPrice 1, value 95: refused without a submit
C6_Witness ==
    /\ sent.called /\ account # None
    /\ sent.balance = Ok(100)
    /\ sent.tx_params.value = Some(95)
    /\ sent.tx_params.gas = Some(10)
    /\ sent.tx_params.gasPrice = Some(1)
    /\ sent.raised = "InsufficientFundsError"
    /\ ~sent.submitted

\* C7: a receipt whose status is failure makes wait_for_transaction_receipt
\* fail with TransactionError in that same iteration: whenever the last
\* receipt obtained is a reverted one the call has already ended with that
\* error, so no query and no sleep follows it, and the deadline is not
\* waited for.
C7_RevertedFailsAtOnce ==
    wait.receipt = "reverted"
    => wait.pc = "done" /\ wait.result = "TransactionError: failed"

\* a reverted receipt ended the call before the deadline
C7_Witness ==
    /\ wait.receipt = "reverted" /\ wait.pc = "done"
    /\ wait.result = "TransactionError: failed"
    /\ wait.now < wait.deadline

\* C8: wait_for_transaction_receipt returns a receipt only if the node
\* reported it with status success; while the receipt is absent (or the
\* query raised) it sleeps poll_interval and, the deadline not passed,
\* queries again.
C8_PollSteps ==
    /\ wait'.result = "receipt" => wait.pc = "query" /\ wait'.receipt = "success"
    /\ (wait.pc = "query" /\ wait'.receipt \in {"absent", "raised"})
          => wait'.pc = "sleep" /\ wait'.result = None
    /\ wait.pc = "sleep"
          => /\ wait'.pc = "loop"
             /\ wait'.now >= wait.now + wait.poll_interval
    /\ (wait.pc = "loop" /\ wait.now < wait.deadline) => wait'.pc = "query"

C8_ReceiptOnlyOnSuccess == [][C8_PollSteps]_vars

\* a receipt is returned after at least one sleep and a second query
C8_Witness ==
    /\ wait.pc = "done" /\ wait.result = "receipt"
    /\ wait.receipt = "success" /\ wait.slept

\* C9: when time advances wait_for_transaction_receipt always terminates,
\* whatever the node answers: a call that reaches the deadline stops polling
\* and fails with the timeout TransactionError, which is raised only once
\* the deadline has passed.
C9_TimeoutStep ==
    /\ (wait.pc = "loop" /\ wait.now >= wait.deadline)
          => wait'.pc = "done" /\ wait'.result = "TransactionError: timed out"
    /\ wait'.result = "TransactionError: timed out"
          => wait.pc = "loop" /\ wait.now >= wait.deadline

C9_PollTerminates ==
    /\ (wait.pc = "loop") ~> (wait.pc = "done")
    /\ [][C9_TimeoutStep]_vars

\* every query having failed, the call timed out
C9_Witness ==
    /\ wait.pc = "done" /\ wait.result = "TransactionError: timed out"
    /\ wait.receipt = "raised" /\ wait.slept

\* C10: a request returned by prepare_transaction has from, to, value,
\* chainId, gasPrice, gas and nonce all set; each of gas price, gas limit
\* and nonce is the caller's override when one is given (0 included) and the
\* value resolved through the gateway otherwise; from is the gateway's
\* current sending address.
C10_RequestConcrete ==
    (prep.called /\ prep.raised = None)
    => /\ prep.tx.from # None /\ prep.tx.from = wallet_address
       /\ prep.tx.to # None
       /\ prep.tx.value.some /\ prep.tx.chainId.some
       /\ prep.tx.gasPrice.some /\ prep.tx.gas.some /\ prep.tx.nonce.some
       /\ prep.tx.gasPrice.val =
             IF prep.gas_price.some THEN prep.gas_price.val
             ELSE IF prep.node.gas_price.ok
                  THEN (prep.node.gas_price.val * 11) \div 10
                  ELSE GAS_PRICE
       /\ prep.tx.gas.val =
             IF prep.gas_limit.some THEN prep.gas_limit.val
             ELSE IF prep.node.estimate.ok
                  THEN (prep.node.estimate.val * 11) \div 10
                  ELSE GAS_LIMIT
       /\ prep.tx.nonce.val =
             IF prep.nonce.some THEN prep.nonce.val ELSE prep.node.count.val
       /\ ~prep.nonce.some => prep.node.count.ok

\* overrides of 0 for gas price and nonce while the node reports other
\* values, the gas limit estimated
C10_Witness ==
    /\ prep.called /\ prep.raised = None
    /\ prep.gas_price = Some(0) /\ prep.node.gas_price = Ok(10)
    /\ prep.nonce = Some(0) /\ prep.node.count = Ok(7)
    /\ ~prep.gas_limit.some
    /\ prep.tx.gasPrice = Some(0) /\ prep.tx.nonce = Some(0)
    /\ prep.tx.gas = Some(11)

(***************************************************************************)
(* Claims C11 - C20                                                        *)
(***************************************************************************)

\* C11: prepare_transaction fails whenever there is no active wallet that
\* holds a signing key, after any sequence of wallet-store operations: no
\* wallet ever activated, the active wallet removed, the active wallet
\* watch-only.
C11_PrepareNeedsSigner ==
    (/\ prep.called
     /\ ~(has_active_wallet(Store) /\ has_private_key(wallets[active_wallet_name])))
    => prep.raised # None

\* C11, what the code checks: prepare_transaction raises ValueError exactly
\* when the gateway holds no sending address, which is the case as long as
\* no wallet was ever activated.
C11_FailsWithoutAddress ==
    /\ prep.called => ((prep.raised = "ValueError") = (wallet_address = None))
    /\ (prep.called /\ last.call = "none") => prep.raised = "ValueError"

\* prepare_transaction was called before any wallet was added
C11_Witness ==
    /\ prep.called /\ last.call = "none"
    /\ active_wallet_name = None
    /\ prep.raised = "ValueError"


C13_ScopeCanBeEntered ==
    \A i \in DOMAIN loop.co, j \in DOMAIN loop.co :
        (/\ loop.co[i].pc \in {"rpc_prepare", "rpc_send"}
         /\ loop.co[j].pc = "ready"
         /\ loop.co[j].wallet_name # loop.co[i].wallet_name
         /\ \A k \in 1..(j - 1) : loop.co[k].pc # "ready")
        => CanRun(j)

\* C13, what the gathered operations do: each request is built with the
\* address and sent with the account of the operation's own wallet, and
\* when all are done the active wallet is the one active at the gather.
C13_ScopesIsolated ==
    /\ \A i \in DOMAIN loop.co :
          LET c == loop.co[i] IN
          /\ c.tx.from # None => c.tx.from = wallets[c.wallet].address
          /\ c.signer # None => c.signer = wallets[c.wallet].account
    /\ (loop.co # <<>> /\ \A i \in DOMAIN loop.co : loop.co[i].pc = "done")
          => active_wallet_name = loop.entry_active

\* two operations for different wallets were gathered and both have sent
C13_Witness ==
    /\ loop.co # <<>>
    /\ \A i \in DOMAIN loop.co : loop.co[i].pc = "done" /\ loop.co[i].signer # None
    /\ \E i \in DOMAIN loop.co, j \in DOMAIN loop.co :
          loop.co[i].wallet_name # loop.co[j].wallet_name

\* C14: the node calls and the sleep between receipt polls are suspension
\* points: while a coroutine is at one of them, a gathered sibling that is
\* not done can take a step.
C14_NodeCallsSuspend ==
    \A i \in DOMAIN loop.co :
        (/\ loop.co[i].pc \in {"rpc_prepare", "rpc_send", "rpc_receipt", "sleep"}
         /\ \E j \in DOMAIN loop.co : j # i /\ loop.co[j].pc # "done")
        => \E j \in DOMAIN loop.co : j # i /\ CanRun(j)

\* C14, what gather does with these coroutines: they run one after another
\* in list order, each from its first statement to its last.
C14_OneAfterAnother ==
    \A i \in DOMAIN loop.co, j \in DOMAIN loop.co :
        (i < j /\ loop.co[j].pc # "ready") => loop.co[i].pc = "done"

\* the first coroutine sleeps between two polls, its sibling has not started
C14_Witness ==
    /\ loop.co # <<>>
    /\ loop.co[1].pc = "sleep"
    /\ loop.co[2].pc = "ready"


\* C15: a call that puts a wallet into a store holding none (add_wallet) makes
\* that wallet the active one and sets the gateway's sending address to its
\* address and, when the wallet has a key, the gateway's account to its
\* account - whether or not the record could be written afterwards.
C15_FirstWalletActive ==
    [][(DOMAIN wallets = {} /\ DOMAIN wallets' # {}) =>
          \E n \in Names :
              /\ DOMAIN wallets' = {n}
              /\ active_wallet_name' = n
              /\ wallet_address' = wallets'[n].address
              /\ has_private_key(wallets'[n]) => account' = wallets'[n].account]_vars

\* add_wallet has put the only wallet into the store and writing its
\* record failed: the wallet is active with its address and its key
C15_Witness ==
    /\ last.call = "add_wallet"
    /\ \E n \in Names :
          /\ DOMAIN wallets = {n}
          /\ active_wallet_name = n
          /\ wallet_address = wallets[n].address
          /\ has_private_key(wallets[n]) /\ account = wallets[n].account
    /\ wallet_directory /\ last.raised = "OSError"

\* C16: a remove_wallet that returns takes exactly the named wallet out of
\* the wallets map and exactly its record out of the directory, clears the
\* active name exactly when it was that wallet's, makes no other wallet
\* active, and leaves the other wallets and records as they were.
C16_RemoveExactly ==
    [][(last'.call = "remove_wallet" /\ last'.raised = None /\ wallets' # wallets) =>
          \E name \in DOMAIN wallets :
              /\ wallets' = [n \in DOMAIN wallets \ {name} |-> wallets[n]]
              /\ files' = [n \in DOMAIN files \ {name} |-> files[n]]
              /\ active_wallet_name' = IF active_wallet_name = name THEN None
                                       ELSE active_wallet_name]_vars

\* the active one of two stored wallets was removed, with its record: the
\* other wallet and its record are there and no wallet is active
C16_Witness ==
    /\ last.call = "remove_wallet" /\ last.raised = None
    /\ wallet_directory
    /\ active_wallet_name = None /\ wallet_address # None
    /\ DOMAIN wallets # {} /\ DOMAIN files = DOMAIN wallets

\* C17: with a name that is not in the store, remove_wallet,
\* set_active_wallet and get_wallet raise WalletError and leave the wallets
\* map, the active name, the records and the gateway's identity as they
\* are.
C17_UnknownNameRejected ==
    /\ \A name \in Names \ DOMAIN wallets, io_ok \in BOOLEAN :
          /\ remove_wallet(Store, name, io_ok) = [Store EXCEPT !.raised = "WalletError"]
          /\ set_active_wallet(Store, name) = [Store EXCEPT !.raised = "WalletError"]
          /\ get_wallet(Store, name) = [Store EXCEPT !.raised = "WalletError"]
    /\ \A name \in DOMAIN wallets : get_wallet(Store, name).raised = None

\* a call with an unknown name has raised on a store that holds wallets,
\* one of them active
C17_Witness ==
    /\ last.call \in {"remove_wallet", "set_active_wallet", "get_wallet"}
    /\ last.raised = "WalletError"
    /\ has_active_wallet(Store)
    /\ Names \ DOMAIN wallets # {}

\* C18: set_active_wallet(name) that returns leaves name as the active
\* name and the wallet's address as the gateway's sending address, for a
\* wallet with a key and for a watch-only one; with a key the gateway's
\* account is the wallet's account.
C18_ActivationSyncsGateway ==
    /\ \A name \in DOMAIN wallets :
          LET S == set_active_wallet(Store, name) IN
          /\ S.raised = None
          /\ S.active_wallet_name = name
          /\ S.wallet_address = wallets[name].address
          /\ has_private_key(wallets[name]) => S.account = wallets[name].account
    /\ (last.call = "set_active_wallet" /\ last.raised = None) =>
          /\ has_active_wallet(Store)
          /\ wallet_address = wallets[active_wallet_name].address
          /\ has_private_key(wallets[active_wallet_name])
                => account = wallets[active_wallet_name].account

\* a watch-only wallet was activated after a key wallet: the sending
\* address is the watch-only wallet's, the account still the other's
C18_Witness ==
    /\ last.call = "set_active_wallet" /\ last.raised = None
    /\ has_active_wallet(Store)
    /\ ~has_private_key(wallets[active_wallet_name])
    /\ wallet_address = wallets[active_wallet_name].address
    /\ account # None

\* C19: with a wallet directory and no failed file operation so far, the
\* records in the directory are those of the wallets in the store, one per
\* name, each the record of the wallet stored under the name.
C19_RecordsMatchStore ==
    (wallet_directory /\ last.io_failures = 0) =>
        /\ DOMAIN files = DOMAIN wallets
        /\ \A n \in DOMAIN files : files[n] = to_dict(wallets[n])

\* wallets were added and one removed: two records for two wallets
C19_Witness ==
    /\ wallet_directory /\ last.io_failures = 0
    /\ last.call = "remove_wallet" /\ last.raised = None
    /\ Cardinality(DOMAIN wallets) = 2
    /\ DOMAIN files = DOMAIN wallets


\* the valid records of the directory and the names they carry
ValidStems == {s \in DOMAIN files : from_dict(files[s]).raised = None}

\* C20: load_wallets handles each record on its own: it does not raise,
\* a record that cannot be read, parsed or rebuilt registers nothing, and
\* the name of every valid record of the directory is in the store after
\* the call.
C20_AllValidRegistered ==
    [][last'.call = "load_wallets" /\ wallet_directory =>
          /\ last'.raised = None
          /\ \A n \in DOMAIN wallets' \ DOMAIN wallets :
                \E s \in ValidStems : files[s].name = n
          /\ \A s \in ValidStems : files[s].name \in DOMAIN wallets']_vars

\* C20, for a directory as save_wallet writes it (every valid record in the
\* file named after it) with files among them that cannot be read, parsed
\* or rebuilt: the same holds.
C20_BadRecordsSkipped ==
    [][(/\ last'.call = "load_wallets" /\ wallet_directory
        /\ \A s \in ValidStems : files[s].name = s) =>
          /\ last'.raised = None
          /\ \A n \in DOMAIN wallets' \ DOMAIN wallets :
                \E s \in ValidStems : files[s].name = n
          /\ \A s \in ValidStems : files[s].name \in DOMAIN wallets'
          /\ \A s \in DOMAIN files \ ValidStems : files'[s] = files[s]]_vars

\* a directory with a file that cannot be rebuilt and two valid records in
\* their own files was loaded: the two wallets are stored, the first active
C20_Witness ==
    /\ last.call = "load_wallets" /\ last.raised = None
    /\ \E s \in DOMAIN files : from_dict(files[s]).raised # None
    /\ \A s \in ValidStems : files[s].name = s
    /\ DOMAIN wallets = ValidStems
    /\ Cardinality(DOMAIN wallets) = 2
    /\ has_active_wallet(Store)


(***************************************************************************)
(* Claims C21 - C30                                                        *)
(***************************************************************************)

\* C21: load_wallets writes no record, and a second load_wallets right
\* after the first leaves the wallets, the active name and the records as
\* the first left them.
C21_LoadWritesNothing ==
    [][last'.call = "load_wallets" =>
          /\ files' = files
          /\ last.call = "load_wallets" =>
                (wallets' = wallets /\ active_wallet_name' = active_wallet_name)]_vars

\* C21, for a directory as save_wallet writes it (every valid record in the
\* file named after it): the records read the same after the load as
\* before, and a second load changes neither wallets nor active name.
C21_OwnLayoutUnchanged ==
    [][(/\ last'.call = "load_wallets"
        /\ \A s \in ValidStems : files[s].name = s) =>
          /\ files' = files
          /\ last.call = "load_wallets" =>
                (wallets' = wallets /\ active_wallet_name' = active_wallet_name)]_vars

\* a record was loaded from a file that is not named after it, and the
\* directory now holds a record under the wallet's name as well
C21_Witness ==
    /\ last.call = "load_wallets"
    /\ \E s \in ValidStems :
          /\ files[s].name # s
          /\ files[s].name \in DOMAIN wallets
          /\ files[s].name \in DOMAIN files
          /\ files[files[s].name] = to_dict(wallets[files[s].name])


\* C22: a wallet that was added and not removed is what get_wallet gives
\* for its name, with its address: across every call, adds under a name in
\* use included, each stored wallet either is removed by remove_wallet or
\* stays retrievable under its name with the address it was added with.
C22_AddedAddressKept ==
    [][\A n \in DOMAIN wallets :
          \/ last'.call = "remove_wallet" /\ n \notin DOMAIN wallets'
          \/ /\ get_wallet([Store EXCEPT !.wallets = wallets'], n).raised = None
             /\ wallets'[n].address = wallets[n].address]_vars

\* C22, what the store keeps: under each name the wallet most recently
\* added under it.  add_wallet puts its argument under the argument's name,
\* replacing what was there; remove_wallet takes names out; no call
\* changes the wallet stored under another name.
C22_LatestAddWins ==
    [][/\ \A n \in DOMAIN wallets' :
             \/ n \in DOMAIN wallets /\ wallets'[n] = wallets[n]
             \/ /\ last'.call = "add_wallet"
                /\ wallets'[n] \in WalletInputs /\ wallets'[n].name = n
       /\ DOMAIN wallets \ DOMAIN wallets' # {} => last'.call = "remove_wallet"]_vars

\* a name was added twice, with a key and as a watch-only wallet; the
\* second record could not be written, so the record under the name still
\* carries the first address and the store the second
C22_Witness ==
    /\ last.call = "add_wallet" /\ last.raised = "OSError"
    /\ \E n \in DOMAIN wallets \cap DOMAIN files :
          files[n].address # wallets[n].address


\* C23: the TaskResult of a run that succeeded takes its transaction hash
\* from the shape of the value execute() returned: a dict with a tx_hash
\* key gives what is under the key, and is the result_data; a dict without
\* gives no hash, and is the result_data; a string that starts with 0x is
\* the hash, the result_data stays empty; None leaves both empty; every
\* other value leaves the hash unset and is the result_data's "value".
C23_HashFromShape ==
    (task.pc = "returned" /\ ~task.raises) =>
        LET v == task.returns
            r == task.result
            hash_shaped == v.type = "str"
                             /\ v.text \in {<<"0", "x">>, <<"0", "x", "a", "b">>}
        IN  /\ r.status = "success" /\ r.task_id = task.task_id
            /\ (v.type = "dict" /\ v.has_tx_hash) =>
                   /\ r.tx_hash = [set |-> TRUE, val |-> v.tx_hash]
                   /\ r.result_data = [shape |-> "mapping", payload |-> v]
            /\ (v.type = "dict" /\ ~v.has_tx_hash) =>
                   /\ r.tx_hash = NoHash
                   /\ r.result_data = [shape |-> "mapping", payload |-> v]
            /\ hash_shaped =>
                   /\ r.tx_hash = [set |-> TRUE, val |-> v.text]
                   /\ r.result_data = NoData
            /\ v.type = "none" => (r.tx_hash = NoHash /\ r.result_data = NoData)
            /\ (v.type \notin {"dict", "none"} /\ ~hash_shaped) =>
                   /\ r.tx_hash = NoHash
                   /\ r.result_data = [shape |-> "wrapped", payload |-> v]

\* execute() returned a value that is false in a condition and not None
\* (0, an empty list, False): it is kept as the payload
C23_Witness ==
    /\ task.pc = "returned" /\ ~task.raises
    /\ task.returns.type = "int" /\ ~task.returns.truthy
    /\ task.result.tx_hash = NoHash
    /\ task.result.result_data.shape = "wrapped"


\* C24: in a sequential composite, when the run of a subtask has started
\* the run of every subtask before it in the list has returned, and the
\* result of the one just before it is the entry under that subtask's id;
\* at no time are two subtasks of the composite running.
C24_OneRunAtATime ==
    (task.pc = "running" /\ task.kind = "sequential") =>
        /\ Cardinality({j \in DOMAIN task.subtasks : task.status[j] = "running"}) <= 1
        /\ \A j \in DOMAIN task.subtasks :
              task.status[j] # "created" =>
                  /\ \A k \in 1..(j - 1) :
                        /\ task.status[k] \in {"success", "failed"}
                        /\ task.subtasks[k].task_id \in DOMAIN task.results
                  /\ (j > 1 /\ task.status[j] = "running") =>
                        task.results[task.subtasks[j - 1].task_id] = task.outs[j - 1].r

\* the second subtask of a sequential composite is running: the first has
\* returned a success and its result is recorded
C24_Witness ==
    /\ task.pc = "running" /\ task.kind = "sequential"
    /\ Len(task.subtasks) = 2
    /\ task.status = <<"success", "running">>
    /\ task.results[task.subtasks[1].task_id] = task.outs[1].r


\* C25: in a parallel composite a subtask whose run raised is recorded
\* under its own task id as a failed TaskResult with the error text and
\* execution time 0, the composite's execute returns all the same, and
\* every sibling's entry is the result its own run returned.
C25_FaultRecorded ==
    (task.pc = "done" /\ task.kind = "parallel") =>
        /\ task.result.status = "success"
        /\ \A j \in DOMAIN task.subtasks :
              LET t == task.subtasks[j] IN
              /\ t.task_id \in DOMAIN task.results
              /\ task.outs[j].raised # None =>
                    /\ task.results[t.task_id] = synthetic_failed(t)
                    /\ task.results[t.task_id].status = "failed"
                    /\ task.results[t.task_id].error = "str(result)"
                    /\ task.results[t.task_id].execution_time = "0.0"
              /\ task.outs[j].raised = None =>
                    task.results[t.task_id] = task.outs[j].r

\* C25, for subtask lists whose task ids are pairwise different.
C25_FaultRecordedDistinctIds ==
    (\A i, j \in DOMAIN task.subtasks :
        i # j => task.subtasks[i].task_id # task.subtasks[j].task_id)
    => C25_FaultRecorded

\* [T1, T2] with different ids: T1's run raised, T2's returned a success;
\* both have their entry
C25_Witness ==
    /\ task.pc = "done" /\ task.kind = "parallel"
    /\ Len(task.subtasks) = 2
    /\ task.subtasks[1].task_id # task.subtasks[2].task_id
    /\ task.status = <<"raised", "success">>
    /\ task.results[task.subtasks[1].task_id].execution_time = "0.0"
    /\ task.results[task.subtasks[2].task_id] = task.outs[2].r


(***************************************************************************)
(* Claims C26 - C30                                                        *)
(***************************************************************************)

\* C26: get_gas_price and estimate_gas never raise.  When the node query
\* fails each returns the configured default as it is (GAS_PRICE, GAS_LIMIT),
\* and when it succeeds each returns the queried value scaled by the gas
\* multiplier: a prepare_transaction that leaves the gas fields to them ends
\* without an error whatever the two node queries did, and its request
\* carries exactly those values.
C26_GasFallbacks ==
    prep.called
    => /\ (/\ wallet_address # None
           /\ prep.raised # "InvalidAddress"
           /\ (prep.nonce.some \/ prep.node.count.ok))
          => prep.raised = None
       /\ (prep.raised = None /\ ~prep.gas_price.some)
          => prep.tx.gasPrice =
                IF prep.node.gas_price.ok
                THEN Some(AutoGas(prep.node.gas_price.val))
                ELSE Some(GAS_PRICE)
       /\ (prep.raised = None /\ ~prep.gas_limit.some)
          => prep.tx.gas =
                IF prep.node.estimate.ok
                THEN Some(AutoGas(prep.node.estimate.val))
                ELSE Some(GAS_LIMIT)

\* the gas price query fails and the estimate answers 10: default price 2,
\* gas 11
C26_Witness ==
    /\ prep.called /\ prep.raised = None
    /\ ~prep.gas_price.some /\ ~prep.gas_limit.some
    /\ prep.node.gas_price = Failed /\ prep.node.estimate = Ok(10)
    /\ prep.tx.gasPrice = Some(GAS_PRICE)
    /\ prep.tx.gas = Some(11)


\* C27: with a signing account set send_transaction has exactly three
\* outcomes: it returns the transaction hash; it fails with
\* InsufficientFundsError when the balance is below the required amount (the
\* error leaves as it was raised, not wrapped); or it fails with
\* TransactionError when the balance query or the submission raised.  No
\* other error leaves the call.
C27_ThreeOutcomes ==
    (sent.called /\ account # None)
    => \/ /\ sent.raised = None /\ sent.tx_hash # None
          /\ sent.balance.ok /\ sent.balance.val >= required(sent.tx_params)
          /\ sent.submitted
       \/ /\ sent.raised = "InsufficientFundsError" /\ sent.tx_hash = None
          /\ sent.balance.ok /\ sent.balance.val < required(sent.tx_params)
          /\ ~sent.submitted
       \/ /\ sent.raised = "TransactionError" /\ sent.tx_hash = None
          /\ \/ ~sent.balance.ok /\ ~sent.submitted
             \/ /\ sent.balance.ok
                /\ sent.balance.val >= required(sent.tx_params)
                /\ sent.submitted

\* a prepared request the balance does not cover: the funds error leaves
\* send_transaction under its own type
C27_Witness ==
    /\ prep.called /\ prep.raised = None
    /\ sent.called /\ account # None
    /\ sent.tx_params = prep.tx
    /\ sent.balance.ok /\ sent.balance.val < required(prep.tx)
    /\ sent.raised = "InsufficientFundsError"


\* C28: outside the two gas fallbacks no gateway operation swallows a
\* connection or node-query error; in particular a
\* wait_for_transaction_receipt during which a receipt query raised ends
\* with an error for its caller, never with a receipt.
C28_WaitReportsQueryError ==
    (wait.pc = "done" /\ wait.query_failed)
    => (wait.result # None /\ wait.result # "receipt")

\* the part of C28 that holds for wait_for_transaction_receipt: a receipt
\* query that raised is never the last thing the call did; the call sleeps
\* and tests the deadline again, and what leaves it is decided by a later
\* answer or by the deadline.
C28_QueryErrorPolledOver ==
    /\ (wait.pc = "sleep" /\ wait.receipt = "raised") => wait.result = None
    /\ (wait.pc = "done" /\ wait.receipt = "raised")
       => wait.result = "TransactionError: timed out"

\* a query raised, the next one found the receipt: the caller gets the
\* receipt and never hears of the error
C28_Witness ==
    /\ wait.pc = "done" /\ wait.query_failed
    /\ wait.receipt = "success" /\ wait.result = "receipt"


\* C29: a failed balance query degrades to a configured default rather than
\* aborting: send_transaction's funds check goes on with a default balance,
\* so what follows the failed query is the funds comparison (which may
\* refuse with InsufficientFundsError) or the submission.
C29_BalanceFailureDegrades ==
    (sent.called /\ account # None /\ ~sent.balance.ok)
    => (sent.submitted \/ sent.raised = "InsufficientFundsError")

\* what send_transaction does instead: the failed balance query ends the
\* call with TransactionError, nothing is compared and nothing submitted
C29_BalanceFailureAborts ==
    (sent.called /\ account # None /\ ~sent.balance.ok)
    => /\ sent.raised = "TransactionError"
       /\ sent.queried /\ ~sent.submitted
       /\ sent.tx_hash = None

\* a request that costs nothing (any balance would cover it), the balance
\* query fails: TransactionError
C29_Witness ==
    /\ sent.called /\ account # None
    /\ ~sent.balance.ok
    /\ required(sent.tx_params) = 0
    /\ sent.raised = "TransactionError"


\* C30: wait_for_transaction_receipt uses the configured default
\* confirmation timeout if and only if the caller gives no timeout; every
\* timeout the caller gives, 0 included, is the one the deadline is computed
\* from and the one the timeout error reports.
C30_CallerTimeoutUsed ==
    wait.pc # "idle"
    => /\ wait.given.some
          => /\ wait.timeout = wait.given.val
             /\ wait.deadline = wait.given.val
       /\ ~wait.given.some
          => /\ wait.timeout = TX_CONFIRMATION_TIMEOUT
             /\ wait.deadline = TX_CONFIRMATION_TIMEOUT

\* what "timeout or settings.TX_CONFIRMATION_TIMEOUT" does: a timeout that
\* is given and not 0 is used; no timeout and a timeout of 0 both give the
\* configured default
C30_FalsyTimeoutDefaults ==
    wait.pc # "idle"
    => /\ wait.deadline = wait.timeout
       /\ wait.timeout =
             IF wait.given.some /\ wait.given.val # 0
             THEN wait.given.val
             ELSE TX_CONFIRMATION_TIMEOUT

\* the caller passes timeout=0 and the node never has the receipt: the call
\* polls until the default deadline and reports the default in its error
C30_Witness ==
    /\ wait.pc = "done" /\ wait.given = Some(0)
    /\ wait.receipt = "absent"
    /\ wait.timeout = TX_CONFIRMATION_TIMEOUT
    /\ wait.now >= TX_CONFIRMATION_TIMEOUT
    /\ wait.result = "TransactionError: timed out"


(***************************************************************************)
(* Claims C31 - C40                                                        *)
(***************************************************************************)

\* C31: every Wallet that holds a private key has the address derived from
\* that key, whichever way it was constructed (from_private_key,
\* from_mnemonic, from_dict, or the constructor given both an address and a
\* key): no wallet of the store has a key and another address.
C31_AddressFromKey ==
    \A n \in DOMAIN wallets :
        has_private_key(wallets[n])
        => wallets[n].address = AddressOfKey(wallets[n].private_key)

\* C31 for the wallets a load builds: Wallet.from_dict ignores the address
\* of a record that holds a key and derives it, so after load_wallets on a
\* new store every wallet holding a key has that key's address, whatever
\* the records held.
C31_LoadedAddressFromKey ==
    [][last'.call = "load_wallets"
       => \A n \in DOMAIN wallets' :
             has_private_key(wallets'[n])
             => wallets'[n].address = AddressOfKey(wallets'[n].private_key)]_vars

\* Wallet("A", a3, private_key=k1) is in the store: its address is a3, its
\* account signs for a1
C31_Witness ==
    /\ "A" \in DOMAIN wallets
    /\ wallets["A"].private_key = "k1" /\ wallets["A"].account = "k1"
    /\ wallets["A"].address = "a3"
    /\ AddressOfKey("k1") = "a1"


\* C32: when a password is set, persisting a wallet stores its private key
\* only as ciphertext plus a per-record salt (and decrypting returns the
\* key for the right password, an error for a wrong one).  save_wallet and
\* to_dict read no password and no setting holds one, so they write the same
\* record under every configuration; the claim then requires of every
\* record written that its private_key field is not a key in the clear.
C32_KeyStoredAsCiphertext ==
    \A n \in DOMAIN files :
        \/ files[n].private_key = None
        \/ with_0x(files[n].private_key) \notin Keys

\* add_wallet persisted a wallet built from key k1: the record A.wallet
\* holds k1 itself
C32_Witness ==
    /\ wallet_directory /\ last.call = "add_wallet" /\ last.raised = None
    /\ "A" \in DOMAIN files /\ "A" \in DOMAIN wallets
    /\ wallets["A"] = from_private_key("A", "k1")
    /\ files["A"].private_key = "k1"


\* C33: after any sequence of add_wallet, remove_wallet and
\* set_active_wallet calls the gateway's signing account, when set, is the
\* account of the currently active wallet, whose address is the gateway's
\* sending address; hence a send_transaction that gets past its account
\* check does so with the key of the active wallet.
C33_SignerIsActive ==
    /\ account # None
       => /\ has_active_wallet(Store)
          /\ wallets[active_wallet_name].account = account
          /\ wallets[active_wallet_name].address = wallet_address
    /\ (sent.called /\ sent.queried)
       => /\ has_active_wallet(Store)
          /\ has_private_key(wallets[active_wallet_name])
          /\ wallets[active_wallet_name].account = account

\* the active wallet is watch-only and send_transaction went on to the
\* balance query with the account an earlier wallet left in the gateway
C33_Witness ==
    /\ sent.called /\ sent.queried
    /\ has_active_wallet(Store)
    /\ ~has_private_key(wallets[active_wallet_name])
    /\ wallet_address = wallets[active_wallet_name].address
    /\ account \in Keys


\* C34: a scoped wallet operation (transfer, approve_token,
\* SwapTask.execute) invoked for a stored wallet B while no wallet is active
\* leaves B active on exit, whether its body returned or raised: the
\* restore is skipped because the recorded original is unset.  (transfer
\* and approve_token switch only to a wallet that holds a key; the swap
\* switches once its router address is configured.)
C34_NoActiveNotRestored ==
    (/\ op.pc = "done"
     /\ op.entry_active = None
     /\ op.wallet_name \in DOMAIN wallets
     /\ IF op.kind = "swap" THEN op.switched
        ELSE has_private_key(wallets[op.wallet_name]))
    => /\ active_wallet_name = op.wallet_name
       /\ wallet_address = wallets[op.wallet_name].address

\* a transfer for B entered with no active wallet and failed in its body:
\* B is the active wallet afterwards
C34_Witness ==
    /\ op.pc = "done" /\ op.kind = "transfer"
    /\ op.entry_active = None /\ op.wallet_name = "B"
    /\ op.raised = "InsufficientFundsError"
    /\ active_wallet_name = "B"
    /\ DOMAIN wallets = {"B"}


\* C35: the TaskResult run() returns for a sequential or parallel composite
\* has status "success" whenever the composite's execute returns, also when
\* some of its subtasks failed; so an outer sequential composite does not
\* stop after an inner composite one of whose subtasks failed: it runs the
\* subtask that follows.
C35_CompositeSucceeds ==
    /\ (task.pc = "done" /\ task.raised = None)
       => task.result.status = "success"
    /\ \A j \in 1..Len(task.subtasks) :
          (task.outs[j] # NoOut /\ task.subtasks[j].inner # <<>>)
          => /\ task.outs[j].r.status = "success"
             /\ (task.pc = "done" /\ j < Len(task.subtasks))
                => /\ task.status[j + 1] \notin {"created", "running"}
                   /\ task.outs[j + 1] # NoOut

\* the first subtask is an inner sequential composite whose first subtask
\* failed; the outer composite ran its second subtask and both results are
\* successes
C35_Witness ==
    /\ task.pc = "done" /\ Len(task.subtasks) = 2
    /\ task.subtasks[1].execute = "sequential"
    /\ task.subtasks[1].inner[1].execute = "raises"
    /\ subtask_failed(task.subtasks[1])
    /\ task.subtasks[2].inner = <<>>
    /\ task.executed = <<1, 2>>
    /\ task.status = <<"success", "success">>
    /\ task.result.status = "success"


\* C36: composite results are keyed by subtask task_id: subtask_results has
\* as many entries as there are distinct task ids among the executed
\* subtasks, and the entry of an id is the result of the last executed
\* subtask with that id; when two subtasks share an id the later result
\* overwrites the earlier one and fewer entries than executed subtasks are
\* reported.
C36_KeyedByTaskId ==
    (task.pc = "done" /\ task.raised = None)
    => LET ran == {task.executed[k] : k \in DOMAIN task.executed}
           ids == {task.subtasks[j].task_id : j \in ran}
       IN  /\ DOMAIN task.results = ids
           /\ Cardinality(DOMAIN task.results) = Cardinality(ids)
           /\ \A j \in ran :
                 (\A k \in ran : task.subtasks[k].task_id = task.subtasks[j].task_id
                                    => k <= j)
                 => task.results[task.subtasks[j].task_id] = task.outs[j].r
           /\ (\E j, k \in ran :
                  j # k /\ task.subtasks[j].task_id = task.subtasks[k].task_id)
              => Cardinality(DOMAIN task.results) < Cardinality(ran)

\* two subtasks share the id t1, the first succeeded and the second failed:
\* one entry, the failed one
C36_Witness ==
    /\ task.pc = "done" /\ Len(task.subtasks) = 2
    /\ task.subtasks[1].task_id = "t1" /\ task.subtasks[2].task_id = "t1"
    /\ task.executed = <<1, 2>>
    /\ task.status = <<"success", "failed">>
    /\ DOMAIN task.results = {"t1"}
    /\ task.results["t1"].status = "failed"


\* C37: transfer and approve_token resolve and check the wallet before
\* switching: when the named wallet is unknown, when no wallet is named and
\* none is active, or when the chosen wallet is watch-only, the call fails
\* with WalletError, the active wallet and the gateway's account and address
\* are as before, and the body with its node calls is not entered.
C37_RefusedBeforeSwitch ==
    [][(/\ op.pc = "idle" /\ op'.pc # "idle" /\ op'.kind \in OpKinds
        /\ LET name == IF op'.wallet_name # None THEN op'.wallet_name
                       ELSE active_wallet_name
           IN  \/ name = None
               \/ name \notin DOMAIN wallets
               \/ ~has_private_key(wallets[name]))
       => /\ op'.pc = "done" /\ op'.raised = "WalletError"
          /\ ~op'.switched
          /\ active_wallet_name' = active_wallet_name
          /\ account' = account
          /\ wallet_address' = wallet_address
          /\ wallets' = wallets]_vars

\* approve_token for the watch-only wallet B while key wallet A is active:
\* refused, A still active
C37_Witness ==
    /\ op.pc = "done" /\ op.kind = "approve_token"
    /\ op.wallet_name = "B" /\ "B" \in DOMAIN wallets
    /\ ~has_private_key(wallets["B"])
    /\ op.raised = "WalletError" /\ ~op.switched
    /\ active_wallet_name = "A" /\ op.entry_active = "A"
    /\ account = wallets["A"].account


\* C38: add_wallet changes the active wallet only when the store holds
\* exactly one wallet after the insertion.  Then that wallet is active and
\* its address is the gateway's (so a wallet added after the store was
\* emptied is active again); otherwise the active name and the gateway's
\* account and address are as before, also when no wallet is active.
C38_ActivatesOnlyWhenSingle ==
    [][last'.call = "add_wallet"
       => IF Cardinality(DOMAIN wallets') = 1
          THEN /\ DOMAIN wallets' = {active_wallet_name'}
               /\ wallet_address' = wallets'[active_wallet_name'].address
          ELSE /\ active_wallet_name' = active_wallet_name
               /\ account' = account
               /\ wallet_address' = wallet_address]_vars

\* add A, add B, remove A, add C: two wallets stored and none active
C38_Witness ==
    /\ last.call = "add_wallet"
    /\ DOMAIN wallets = {"B", "C"}
    /\ active_wallet_name = None
    /\ wallet_address # None

\* prepare_transaction and send_transaction as a wallet operation's body
\* calls them, on the gateway as it is: the funds check of send_transaction
\* refuses
FundsRefused(value, data, node, b2, submit) ==
    LET p == prepare_transaction(wallet_address, "a1", value, data,
                                 NoInt, NoInt, NoInt, node)
    IN  /\ p.raised = None
        /\ send_transaction(account, p.tx, b2, submit).raised
              = "InsufficientFundsError"

\* the node answers one body may see
BodyAnswers ==
    [b1 : BodyBalances, b2 : BodyBalances, submit : SubmitAnswers,
     node : {[gas_price |-> qp, estimate |-> qp, count |-> qc] :
                qp \in NodeAnswers, qc \in CountAnswers}]

\* C39: an InsufficientFundsError raised during a wallet operation reaches
\* the caller as InsufficientFundsError, through transfer (native and ERC20)
\* and through approve_token alike.  Stated of an operation about to run its
\* body, for every answer the node may give: when the balance pre-check or
\* the funds check of send_transaction refuses, that error is what leaves
\* the body.
C39_FundsErrorUnconverted ==
    op.pc = "body" =>
    \A amount \in Amounts, a \in BodyAnswers :
        /\ (/\ op.kind = "transfer"
            /\ a.b1.ok
            /\ \/ a.b1.val < amount
               \/ FundsRefused(amount, None, a.node, a.b2, a.submit))
           => transfer_eth(Store, "a1", amount, a.b1, a.node, a.b2, a.submit)
                 = "InsufficientFundsError"
        /\ (/\ op.kind = "transfer_erc20"
            /\ a.b1.ok
            /\ \/ a.b1.val < amount
               \/ FundsRefused(0, "0xdata", a.node, a.b2, a.submit))
           => transfer_erc20(Store, "a1", amount, TRUE, a.b1, a.node, a.b2, a.submit)
                 = "InsufficientFundsError"
        /\ (/\ op.kind = "approve_token"
            /\ FundsRefused(0, "0xdata", a.node, a.b2, a.submit))
           => approve_body(Store, "a1", TRUE, a.node, a.b2, a.submit)
                 = "InsufficientFundsError"

\* the part of C39 that holds: transfer, native and ERC20, lets the funds
\* error through as it is, from its balance pre-check and from
\* send_transaction; approve_token turns it into WalletError
C39_TransferKeepsFundsError ==
    op.pc = "body" =>
    \A amount \in Amounts, a \in BodyAnswers :
        /\ (/\ op.kind = "transfer"
            /\ a.b1.ok
            /\ \/ a.b1.val < amount
               \/ FundsRefused(amount, None, a.node, a.b2, a.submit))
           => transfer_eth(Store, "a1", amount, a.b1, a.node, a.b2, a.submit)
                 = "InsufficientFundsError"
        /\ (/\ op.kind = "transfer_erc20"
            /\ a.b1.ok
            /\ \/ a.b1.val < amount
               \/ FundsRefused(0, "0xdata", a.node, a.b2, a.submit))
           => transfer_erc20(Store, "a1", amount, TRUE, a.b1, a.node, a.b2, a.submit)
                 = "InsufficientFundsError"
        /\ (/\ op.kind = "approve_token"
            /\ FundsRefused(0, "0xdata", a.node, a.b2, a.submit))
           => approve_body(Store, "a1", TRUE, a.node, a.b2, a.submit)
                 = "WalletError"

\* approve_token is about to run its body with a signing account, and a
\* balance of 0 makes send_transaction refuse: WalletError leaves the body
C39_Witness ==
    /\ op.pc = "body" /\ op.kind = "approve_token" /\ account # None
    /\ LET node == [gas_price |-> Ok(10), estimate |-> Ok(10), count |-> Ok(7)]
       IN  /\ FundsRefused(0, "0xdata", node, Ok(0), Ok(0))
           /\ approve_body(Store, "a1", TRUE, node, Ok(0), Ok(0)) = "WalletError"

\* C40: persisting a wallet and loading it back reconstructs the same
\* identity: for every wallet w built by from_private_key or as watch-only,
\* Wallet.from_dict(w.to_dict()) has the same name, the same address and the
\* same has_private_key value, and a watch-only wallet's record holds no
\* key.  Stated of every such wallet of the store, and of the record the
\* store has written for it.
C40_RoundTrip ==
    \A n \in DOMAIN wallets :
        LET w == wallets[n]
            r == from_dict(to_dict(w))
        IN  (\/ ~has_private_key(w)
             \/ w = from_private_key(w.name, w.private_key))
            => /\ r.raised = None
               /\ r.wallet.name = w.name
               /\ r.wallet.address = w.address
               /\ has_private_key(r.wallet) = has_private_key(w)
               /\ ~has_private_key(w) => to_dict(w).private_key = None
               /\ (last.call = "add_wallet" /\ last.raised = None
                   /\ n \in DOMAIN files /\ files[n] = to_dict(w))
                  => from_dict(files[n]).wallet = w

\* a wallet built from the key k1 spelled without "0x" was persisted, and a
\* new WalletManager loaded it back from its record: the same wallet
C40_Witness ==
    /\ last.call = "load_wallets"
    /\ "A" \in DOMAIN wallets /\ "A" \in DOMAIN files
    /\ wallets["A"] = from_private_key("A", "k1_bare")
    /\ files["A"] = to_dict(wallets["A"])
    /\ from_dict(files["A"]).wallet = wallets["A"]

====
